---------------------------- MODULE Spec2Model ----------------------------
(***************************************************************************)
(* A model of the Wordle expected-moves solver.                            *)
(*                                                                         *)
(*   src/src/precompute.ts   feedback encoder, feedback matrix, candidate  *)
(*                           fingerprint, entropy ordering, the recursive  *)
(*                           search with alpha pruning, the in-memory memo *)
(*                           and the best_guesses store, runPrecomputation *)
(*   src/unnamed/part_001    the earlier string-keyed search with a        *)
(*                           ProgressTracker                               *)
(*                                                                         *)
(* Conventions of the model.                                               *)
(*  - A word is a 5-tuple of one-letter strings; position i of the code    *)
(*    (0..4) is position i+1 of the tuple.  Vocabulary indices are the     *)
(*    code's indices (0..N-1).                                             *)
(*  - expectedMoves is an exact rational <<n, d>> in lowest terms;         *)
(*    Infinity is <<1, 0>>.  The code computes in IEEE doubles; the model  *)
(*    computes the same sums exactly.                                      *)
(*  - oneStepEntropy(g) = log2(n) - (1/n) * SUM m*log2(m) over the group   *)
(*    sizes m, so "entropy(b) - entropy(a)" has the sign of                *)
(*    log2(PROD_a m^m) - log2(PROD_b m^m): the model compares the integer  *)
(*    products m^m (EntropyRank) instead of the logarithms.                *)
(*  - The md5 of the joined sorted indices is modelled by the sorted index *)
(*    sequence itself (md5 taken as collision-free).                       *)
(***************************************************************************)
EXTENDS Integers, Sequences, FiniteSets, TLC

VARIABLES
    \* ---- src/src/precompute.ts: module-level state
    words,            \* words: string[]            (0-based function)
    wordToIndex,      \* wordToIndex: Map<string, number>
    feedbackMatrix,   \* feedbackMatrix: Uint8Array (index i*N + j)
    N,                \* N: number of candidate words
    memo,             \* memo: Map<`${depthLeft}:${hash}`, {bestGuess, expectedMoves}>
    store,            \* rows of the best_guesses table, in insertion order
    \* ---- runPrecomputation: position in its loops
    pc,               \* "start" | "rows" | "groups" | "done" | "failed"
    round1Rows,       \* the round=1 rows read at the start
    rowIdx,           \* index of the current round1Row
    feedbackGroups,   \* Map<fbCode, number[]> of the current row, in insertion order
    groupIdx,         \* index of the next feedback group of the current row
    lastCall,         \* the arguments and the outcome of the last search call
    prevCall,         \* the same for the call before it
    \* ---- src/unnamed/part_001: the memo and the progress tracker of one context
    memo1,            \* memo: Map<`${depthLeft}:${candidates.join(",")}`, GuessResult>
    progress,         \* ProgressTracker {expansions, bestSoFar}
    lastSolve,        \* the arguments and the outcome of the last part_001 search call
    prevSolve,        \* the same for the call before it
    \* ---- direct calls of the two search functions
    callCount,        \* number of direct calls made so far
    \* ---- the feedback encoder applied to one pair of words
    fbPc,             \* "input" | "encoded" | "code" | "converted"
    guess,            \* the guess handed to getFeedbackCode
    solution,         \* the solution handed to getFeedbackCode
    fbCode,           \* getFeedbackCode(guess, solution)
    fbSwapped,        \* getFeedbackCode(solution, guess)
    fbString,         \* feedbackToString(fbCode)
    fbDirect,         \* getFeedback(guess, solution) of part_001
    \* ---- candidateSetHash applied to two arrays
    hashArgs,         \* the two arrays handed to candidateSetHash
    hashOut,          \* the two hashes, and the first array after its call
    \* ---- sequential runs of the script on one database
    runCount,         \* number of runs begun after the first
    runStart,         \* number of rows of best_guesses when the current run began
    prevCompleted     \* whether the run before the current one ran to its end

vars == <<words, wordToIndex, feedbackMatrix, N, memo, store, pc, round1Rows,
          rowIdx, feedbackGroups, groupIdx, lastCall, prevCall, memo1, progress,
          lastSolve, prevSolve, callCount,
          fbPc, guess, solution, fbCode, fbSwapped, fbString, fbDirect,
          hashArgs, hashOut, runCount, runStart, prevCompleted>>

searchVars == <<words, wordToIndex, feedbackMatrix, N, memo, store, pc,
                round1Rows, rowIdx, feedbackGroups, groupIdx, lastCall, prevCall,
                memo1, progress, lastSolve, prevSolve, callCount>>

\* The state of the part_001 search and of the direct calls.
part1Vars == <<memo1, progress, lastSolve, prevSolve, callCount>>

fbVars == <<fbPc, guess, solution, fbCode, fbSwapped, fbString, fbDirect>>

hashVars == <<hashArgs, hashOut>>

\* The bookkeeping of sequential runs.
runsVars == <<runCount, runStart, prevCompleted>>

-----------------------------------------------------------------------------
(* Program constants *)

MAX_ROUNDS == 6

CORRECT_CODE == 242

WordLen == 5

-----------------------------------------------------------------------------
(* Letters and words *)

Alphabet ==
    <<"A", "B", "C", "D", "E", "F", "G", "H", "I", "J", "K", "L", "M",
      "N", "O", "P", "Q", "R", "S", "T", "U", "V", "W", "X", "Y", "Z">>

\* The UTF-16 order of two upper-case letters is their alphabet order.
Ord(c) == CHOOSE k \in 1..26 : Alphabet[k] = c

Positions == 1..WordLen

-----------------------------------------------------------------------------
(* 1. Feedback functions (precompute.ts 23-59) *)

\* Array.prototype.indexOf: the first position holding c, 0 when there is none
\* (the code's -1).
IndexOf(arr, c) ==
    IF \E k \in 1..Len(arr) : arr[k] = c
    THEN CHOOSE k \in 1..Len(arr) :
            arr[k] = c /\ \A j \in 1..(k - 1) : arr[j] # c
    ELSE 0

\* The first pass with its loop bound off by one: the last position is never
\* compared.
FirstPassShort(g, s) ==
    [digits |-> [i \in Positions |-> IF i < WordLen /\ g[i] = s[i] THEN 2 ELSE 0],
     solArr |-> [i \in Positions |-> IF i < WordLen /\ g[i] = s[i] THEN "" ELSE s[i]]]

\* First pass: mark greens, and mark the solution letter as used.
FirstPass(g, s) ==
    [digits |-> [i \in Positions |-> IF g[i] = s[i] THEN 2 ELSE 0],
     solArr |-> [i \in Positions |-> IF g[i] = s[i] THEN "" ELSE s[i]]]

\* One iteration of the second pass that forgets to mark the matched solution
\* letter as used.
SecondPassStepNoConsume(g, st, i) ==
    IF st.digits[i] # 2 /\ IndexOf(st.solArr, g[i]) # 0
    THEN [st EXCEPT !.digits[i] = 1]
    ELSE st

\* One iteration of the second pass that never marks a yellow.
SecondPassStepNoYellow(g, st, i) == st

\* One iteration of the second pass: position i becomes yellow when its letter
\* is still unused in the solution, and that occurrence is used up.
SecondPassStep(g, st, i) ==
    IF st.digits[i] = 2 THEN st
    ELSE LET idx == IndexOf(st.solArr, g[i])
         IN IF idx # 0
            THEN [digits |-> [st.digits EXCEPT ![i] = 1],
                  solArr |-> [st.solArr EXCEPT ![idx] = ""]]
            ELSE st

RECURSIVE SecondPass(_, _, _)
\* Second pass: the loop "for (let i = 0; i < 5; i++)" from position i on.
SecondPass(g, st, i) ==
    IF i > WordLen THEN st
    ELSE SecondPass(g, SecondPassStep(g, st, i), i + 1)

\* The digits of the feedback of guess g against solution s.
FeedbackDigits(g, s) == SecondPass(g, FirstPass(g, s), 1).digits

RECURSIVE EncodeBase3(_, _, _)
\* "code = code * 3 + digits[i]" from position i on.
EncodeBase3(digits, i, code) ==
    IF i > WordLen THEN code
    ELSE EncodeBase3(digits, i + 1, code * 3 + digits[i])

getFeedbackCode(g, s) == EncodeBase3(FeedbackDigits(g, s), 1, 0)

\* Digit i (1..5, most significant first) of a base-3 code.
DigitOf(code, i) == (code \div (3 ^ (WordLen - i))) % 3

\* The character of one base-3 digit.
DigitChar(d) == IF d = 2 THEN "2" ELSE IF d = 1 THEN "1" ELSE "0"

RECURSIVE ToStringBase3(_)
\* code.toString(3): the base-3 digits of a non-negative integer, the most
\* significant first, without leading zeros ("0" for 0); a string is the tuple
\* of its characters.
ToStringBase3(code) ==
    IF code < 3 THEN <<DigitChar(code)>>
    ELSE Append(ToStringBase3(code \div 3), DigitChar(code % 3))

RECURSIVE PadZeros(_)
\* while (s.length < 5) { s = "0" + s; }
PadZeros(s) == IF Len(s) < WordLen THEN PadZeros(<<"0">> \o s) ELSE s

\* The conversion without the padding loop.
feedbackToStringUnpadded(code) == ToStringBase3(code)

\* feedbackToString: the base-3 digits, left-padded with zeros to 5 characters.
feedbackToString(code) == PadZeros(ToStringBase3(code))

-----------------------------------------------------------------------------
(* The feedback encoder applied to every pair of words of a bounded set *)

\* Number of letters of the alphabet the enumerated words are drawn from.
NumLetters == 3

SmallWords == [Positions -> {Alphabet[k] : k \in 1..NumLetters}]

ABACK == <<"A", "B", "A", "C", "K">>

ABASE == <<"A", "B", "A", "S", "E">>

EncoderWords == SmallWords \cup {ABACK, ABASE}

NoCode == 0 - 1

-----------------------------------------------------------------------------
(* Exact arithmetic on expectedMoves *)

RECURSIVE GCD(_, _)
GCD(a, b) == IF b = 0 THEN a ELSE GCD(b, a % b)

Infinity == <<1, 0>>

Zero == <<0, 1>>

One == <<1, 1>>

IsInfinite(x) == x[2] = 0

Norm(n, d) == IF d = 0 THEN Infinity ELSE <<n \div GCD(n, d), d \div GCD(n, d)>>

RAdd(x, y) ==
    IF IsInfinite(x) \/ IsInfinite(y) THEN Infinity
    ELSE Norm(x[1] * y[2] + y[1] * x[2], x[2] * y[2])

\* x * y for a finite x > 0
RMul(x, y) ==
    IF IsInfinite(y) THEN Infinity ELSE Norm(x[1] * y[1], x[2] * y[2])

\* x < y
RLess(x, y) ==
    IF IsInfinite(x) THEN FALSE
    ELSE IF IsInfinite(y) THEN TRUE
    ELSE x[1] * y[2] < y[1] * x[2]

\* x >= y
RGeq(x, y) == ~RLess(x, y)

\* x <= y
RLeq(x, y) == ~RLess(y, x)

\* Math.min(x, y)
RMin(x, y) == IF RLess(y, x) THEN y ELSE x

\* The short-circuit threshold 1.00001 of the guess loop.
NearOne == <<100001, 100000>>

-----------------------------------------------------------------------------
(* Sequences of indices *)

Range(f) == {f[k] : k \in DOMAIN f}

RECURSIVE SortedSeq(_)
\* The members of a finite set of integers in ascending order:
\* "sort((a, b) => a - b)" on an array without repeated members.
SortedSeq(S) ==
    IF S = {} THEN <<>>
    ELSE LET m == CHOOSE x \in S : \A y \in S : x <= y
         IN <<m>> \o SortedSeq(S \ {m})

RECURSIVE InsertBy(_, _, _)
\* x inserted into the sequence sorted by key, after the members whose key is
\* not greater (a stable insertion); key is a function of the members.
InsertBy(sorted, x, key) ==
    IF sorted = <<>> THEN <<x>>
    ELSE IF key[x] < key[Head(sorted)] THEN <<x>> \o sorted
    ELSE <<Head(sorted)>> \o InsertBy(Tail(sorted), x, key)

RECURSIVE StableSortBy(_, _)
\* Array.prototype.sort (stable since ES2019) by ascending key.
StableSortBy(seq, key) ==
    IF seq = <<>> THEN <<>>
    ELSE InsertBy(StableSortBy(SubSeq(seq, 1, Len(seq) - 1), key), seq[Len(seq)], key)

-----------------------------------------------------------------------------
(* 2. Feedback matrix, fingerprint, entropy (precompute.ts 64-109) *)

\* The matrix filled with the roles of the two indices exchanged.
buildFeedbackMatrixTransposed(ws, n) ==
    [k \in 0..(n * n - 1) |-> getFeedbackCode(ws[k % n], ws[k \div n]) % 256]

\* buildFeedbackMatrix(words): matrix[i * N + j] = getFeedbackCode(words[i], words[j]),
\* stored in a Uint8Array (one byte per entry).
buildFeedbackMatrix(ws, n) ==
    [k \in 0..(n * n - 1) |-> getFeedbackCode(ws[k \div n], ws[k % n]) % 256]

\* sort((a, b) => a - b) on an array of numbers.
SortNumbers(arr) == StableSortBy(arr, [x \in Range(arr) |-> x])

\* The hash of the array as it is handed in, with no sorting.
candidateSetHashUnsorted(candidates) == candidates

\* The body of candidateSetHash on the arrays it touches: slice() copies the
\* argument, sort() sorts the copy in place, join(",") writes the copy out; the
\* record holds the argument array and the joined copy when the call returns.
HashCall(candidates) ==
    LET copy == candidates
        sorted == SortNumbers(copy)
    IN [candidates |-> candidates, joined |-> sorted]

\* candidateSetHash: the md5 of the joined sorted copy; md5 is taken as
\* collision-free, so the joined sequence of numbers stands for its digest.
candidateSetHash(candidates) == HashCall(candidates).joined

\* const memoKey = `${depthLeft}:${candHash}`
MemoKeyOf(depthLeft, candHash) == <<depthLeft, candHash>>

\* The feedback groups of guessIdx over candidateIndices, as a Map fills them:
\* keys in the order of their first occurrence, members in candidate order.
Partitions(guessIdx, candidateIndices) ==
    LET codeAt(k) == feedbackMatrix[guessIdx * N + candidateIndices[k]]
        firsts == {k \in 1..Len(candidateIndices) :
                      \A j \in 1..(k - 1) : codeAt(j) # codeAt(k)}
        order == SortedSeq(firsts)
    IN [p \in 1..Len(order) |->
           [code |-> codeAt(order[p]),
            members |-> SelectSeq(candidateIndices,
                          LAMBDA c : feedbackMatrix[guessIdx * N + c] = codeAt(order[p]))]]

RECURSIVE PowerProduct(_, _)
\* PROD of m^m over the sizes m of the groups from position k on.
PowerProduct(parts, k) ==
    IF k > Len(parts) THEN 1
    ELSE (Len(parts[k].members) ^ Len(parts[k].members)) * PowerProduct(parts, k + 1)

\* oneStepEntropy(guessIdx, candidateIndices) = log2(n) - log2(EntropyRank) / n:
\* a greater entropy is a smaller rank, and equal entropies are equal ranks.
EntropyRank(guessIdx, candidateIndices) ==
    PowerProduct(Partitions(guessIdx, candidateIndices), 1)

\* guessList: the candidates by descending one-step entropy (a stable sort).
guessListOf(candidateIndices) ==
    StableSortBy(candidateIndices,
                 [g \in Range(candidateIndices) |-> EntropyRank(g, candidateIndices)])

-----------------------------------------------------------------------------
(* 3. The best_guesses cache (precompute.ts 116-211) *)

Null == "NULL"

NoGuess == 0 - 1

\* SQL NULL in candidate_hash: equal to no fingerprint.
NullHash == <<NoGuess>>

\* The null checkCachedBestGuess returns.
NotCached == [bestGuess |-> NoGuess, expectedMoves |-> <<0, 1>>]

\* The table lookup switched off: no row is ever found.
checkCachedBestGuessNever(rows, round, candHash) == NotCached

\* checkCachedBestGuess(round, candHash): the first row of that round and hash,
\* its best guess as an index; null when there is none or the word is unknown.
checkCachedBestGuess(rows, round, candHash) ==
    LET hits == {k \in 1..Len(rows) :
                    rows[k].round = round /\ rows[k].candidateHash = candHash}
        first == CHOOSE k \in hits : \A j \in hits : k <= j
    IN IF hits = {} THEN NotCached
       ELSE IF rows[first].bestGuess \notin DOMAIN wordToIndex THEN NotCached
       ELSE [bestGuess |-> wordToIndex[rows[first].bestGuess],
             expectedMoves |-> rows[first].expectedMoves]

\* storeBestGuessInDB: one row appended, unless the index is out of range.
storeBestGuessInDB(rows, round, candHash, candidateIndices, bestGuessIdx, expectedMoves, previousGuess, feedback) ==
    IF bestGuessIdx < 0 \/ bestGuessIdx >= N THEN rows
    ELSE Append(rows,
           [round |-> round,
            previousGuess |-> previousGuess,
            feedback |-> feedback,
            bestGuess |-> words[bestGuessIdx],
            expectedMoves |-> expectedMoves,
            candidateWords |->
                [k \in 1..Len(candidateIndices) |->
                    words[SortNumbers(candidateIndices)[k]]],
            candidateHash |-> candHash])

-----------------------------------------------------------------------------
(* 5. The recursive search with alpha pruning (precompute.ts 241-379) *)
(*                                                                         *)
(* The search threads st = [memo, store, calls, io] through its calls: the *)
(* memo and the table as the call found them, the number of recursive      *)
(* calls begun so far, and the database connection: which of the coming    *)
(* selects and inserts is going to raise an error.  It returns             *)
(* [threw, result, st].                                                    *)

NoResult == [bestGuess |-> NoGuess, expectedMoves |-> Zero]

\* The memo with no entry ever added.
MemoSetDropped(m, key, value) == m

\* memo.set(key, value)
MemoSet(m, key, value) == [k \in DOMAIN m \cup {key} |-> IF k = key THEN value ELSE m[k]]

\* A database connection on which every statement succeeds.  failRead and
\* failWrite count the statements still to come: 1 = the next select (insert)
\* raises an error, 0 = none does; readFailed and writeFailed tell that the
\* error was raised, failedKey and failedResult what the failed insert was of.
\* yieldAt counts the statements as well: while the call awaits its
\* yieldAt-th statement (0: never) the event loop runs the call other of
\* another task from its start to its end; otherRan and otherResult tell that
\* it did and what it returned.
NoFaults ==
    [failRead |-> 0, failWrite |-> 0, readFailed |-> FALSE, writeFailed |-> FALSE,
     failedKey |-> <<>>, failedResult |-> NoResult,
     yieldAt |-> 0, other |-> <<>>, otherRan |-> FALSE, otherResult |-> NoResult]

\* A connection whose failRead-th select and failWrite-th insert raise.
Faults(failRead, failWrite) ==
    [NoFaults EXCEPT !.failRead = failRead, !.failWrite = failWrite]

\* selectBestGuessStmt.execute(...) rejects
ReadFails(st) == st.io.failRead = 1

\* the state after a select that succeeded
AfterRead(st) == [st EXCEPT !.io.failRead = IF @ > 1 THEN @ - 1 ELSE @]

\* the state after a select that raised
AfterFailedRead(st) == [st EXCEPT !.io.failRead = 0, !.io.readFailed = TRUE]

\* insertBestGuessStmt.execute(...) rejects
WriteFails(st) == st.io.failWrite = 1

\* the state after an insert that succeeded
AfterWrite(st) == [st EXCEPT !.io.failWrite = IF @ > 1 THEN @ - 1 ELSE @]

\* the state after an insert that raised: catch (error) { ...; throw error }
AfterFailedWrite(st, key, result) ==
    [st EXCEPT !.io.failWrite = 0, !.io.writeFailed = TRUE,
               !.io.failedKey = key, !.io.failedResult = result]

\* if (expMoves >= localBest.expectedMoves || expMoves >= alpha)
Pruned(expMoves, localBest, alpha) ==
    RGeq(expMoves, localBest.expectedMoves) \/ RGeq(expMoves, alpha)

\* if (expMoves < localBest.expectedMoves)
Improves(expMoves, localBest) == RLess(expMoves, localBest.expectedMoves)

\* An empty candidate set answered with a sentinel instead of an error.
EmptyIsError_Sentinel(candidateIndices) == FALSE

\* if (candidateIndices.length === 0) throw new Error("Empty candidate set")
EmptyIsError(candidateIndices) == Len(candidateIndices) = 0

\* The base case returning one move for a single candidate.
SingleBestOneMove(candidateIndices) ==
    [bestGuess |-> candidateIndices[1], expectedMoves |-> One]

\* const singleBest = { bestGuess: candidateIndices[0], expectedMoves: 0 }
SingleBest(candidateIndices) ==
    [bestGuess |-> candidateIndices[1], expectedMoves |-> Zero]

RECURSIVE computeOptimalGuessRecursive(_, _, _, _, _, _)
RECURSIVE Awaited(_)
RECURSIVE GuessLoop(_, _, _, _, _, _, _)
RECURSIVE PartitionLoop(_, _, _, _, _, _, _, _)

\* for (const subset of partitions.values()) { ... } from partition p on, with
\* the running expMoves.  An error raised in a recursive call ends the loop.
PartitionLoop(candidateIndices, depthLeft, alpha, localBest, partitions, p, expMoves, st) ==
    IF p > Len(partitions) THEN [threw |-> FALSE, expMoves |-> expMoves, st |-> st]
    ELSE
        LET subset == partitions[p].members
            prob == Norm(Len(subset), Len(candidateIndices))
            subRes == computeOptimalGuessRecursive(
                          subset, depthLeft - 1,
                          RMin(alpha, localBest.expectedMoves), "", "",
                          [st EXCEPT !.calls = @ + 1])
            added == IF Len(subset) > 1
                     THEN RAdd(expMoves, RMul(prob, subRes.result.expectedMoves))
                     ELSE expMoves
            st2 == IF Len(subset) > 1 THEN subRes.st ELSE st
        IN IF Len(subset) > 1 /\ subRes.threw
           THEN [threw |-> TRUE, expMoves |-> Infinity, st |-> subRes.st]
           ELSE IF Pruned(added, localBest, alpha)
           THEN [threw |-> FALSE, expMoves |-> Infinity, st |-> st2]
           ELSE PartitionLoop(candidateIndices, depthLeft, alpha, localBest,
                              partitions, p + 1, added, st2)

\* for (const guessIdx of guessList) { ... } from guess g on.  An error raised
\* below ends the loop.
GuessLoop(candidateIndices, depthLeft, alpha, guessList, g, localBest, st) ==
    IF g > Len(guessList) THEN [threw |-> FALSE, localBest |-> localBest, st |-> st]
    ELSE
        LET guessIdx == guessList[g]
            done == PartitionLoop(candidateIndices, depthLeft, alpha, localBest,
                                  Partitions(guessIdx, candidateIndices), 1, One, st)
            better == [bestGuess |-> guessIdx, expectedMoves |-> done.expMoves]
        IN IF done.threw
           THEN [threw |-> TRUE, localBest |-> localBest, st |-> done.st]
           ELSE IF Improves(done.expMoves, localBest)
           THEN IF RLeq(done.expMoves, NearOne)
                THEN [threw |-> FALSE, localBest |-> better, st |-> done.st]
                ELSE GuessLoop(candidateIndices, depthLeft, alpha, guessList,
                               g + 1, better, done.st)
           ELSE GuessLoop(candidateIndices, depthLeft, alpha, guessList,
                          g + 1, localBest, done.st)

\* A baseline that names no candidate.
FirstOfNone(candidateIndices) == NoGuess

\* The state when an await of a database statement resumes: the statement has
\* been executed; if this is the await during which the other task runs, its
\* call st.io.other = <<candidateIndices, depthLeft, alpha>> has run to its end
\* on the shared memo and table.
Awaited(st) ==
    IF st.io.yieldAt = 1
    THEN LET out == computeOptimalGuessRecursive(
                        st.io.other[1], st.io.other[2], st.io.other[3], "", "",
                        [st EXCEPT !.io = NoFaults])
         IN [out.st EXCEPT !.io = [st.io EXCEPT !.yieldAt = 0, !.otherRan = TRUE,
                                                !.otherResult = out.result]]
    ELSE [st EXCEPT !.io.yieldAt = IF @ > 1 THEN @ - 1 ELSE @]

\* candidateIndices[0]: undefined (NoGuess) for an empty array.
FirstOf(candidateIndices) ==
    IF Len(candidateIndices) = 0 THEN NoGuess ELSE candidateIndices[1]

\* The metadata stored with rows of every round.
StoredMetadataAlways(currentRound, value) == value

\* prevGuess and feedback as they are handed to storeBestGuessInDB:
\* currentRound === 2 ? value : ""
StoredMetadata(currentRound, value) == IF currentRound = 2 THEN value ELSE ""

computeOptimalGuessRecursive(candidateIndices, depthLeft, alpha, prevGuess, feedback, st) ==
    IF EmptyIsError(candidateIndices)
    THEN [threw |-> TRUE, result |-> NoResult, st |-> st]
    ELSE
        LET currentRound == MAX_ROUNDS - depthLeft + 1
            sorted == SortedSeq(Range(candidateIndices))
            candHash == candidateSetHash(sorted)
            memoKey == MemoKeyOf(depthLeft, candHash)
            cached == checkCachedBestGuess(st.store, currentRound, candHash)
            storePrevGuess == StoredMetadata(currentRound, prevGuess)
            storeFeedback == StoredMetadata(currentRound, feedback)
            Throw(st1) == [threw |-> TRUE, result |-> NoResult, st |-> st1]
            Return(res, st1) == [threw |-> FALSE, result |-> res, st |-> st1]
            \* memo.set(memoKey, res); await storeBestGuessInDB(...); return res
            SetAndStore(res, st1) ==
                LET set == [st1 EXCEPT !.memo = MemoSet(@, memoKey, res)]
                IN IF res.bestGuess < 0 \/ res.bestGuess >= N THEN Return(res, set)
                   ELSE IF WriteFails(set)
                   THEN Throw(AfterFailedWrite(set, memoKey, res))
                   ELSE Return(res,
                          Awaited([AfterWrite(set) EXCEPT !.store =
                              storeBestGuessInDB(@, currentRound, candHash, sorted,
                                                 res.bestGuess, res.expectedMoves,
                                                 storePrevGuess, storeFeedback)]))
            singleBest == SingleBest(sorted)
            \* after const cached = await checkCachedBestGuess(...)
            resumed == Awaited(AfterRead(st))
            searched == GuessLoop(sorted, depthLeft, alpha, guessListOf(sorted), 1,
                                  [bestGuess |-> FirstOf(sorted),
                                   expectedMoves |-> Infinity],
                                  resumed)
            localBest == searched.localBest
        IN IF Len(sorted) = 1
           THEN IF memoKey \in DOMAIN st.memo
                THEN Return(st.memo[memoKey], st)
                ELSE IF ReadFails(st)
                THEN Throw(AfterFailedRead(st))
                ELSE IF cached # NotCached
                THEN Return(cached,
                            [resumed EXCEPT !.memo = MemoSet(@, memoKey, cached)])
                ELSE SetAndStore(singleBest, resumed)
           ELSE IF memoKey \in DOMAIN st.memo
           THEN Return(st.memo[memoKey], st)
           ELSE IF ReadFails(st)
           THEN Throw(AfterFailedRead(st))
           ELSE IF cached # NotCached
           THEN Return(cached,
                       [resumed EXCEPT !.memo = MemoSet(@, memoKey, cached)])
           ELSE IF searched.threw
           THEN Throw(searched.st)
           ELSE SetAndStore(localBest, searched.st)

-----------------------------------------------------------------------------
(* Seeding (src/src/seed.ts) and the vocabularies of the model *)

W(a, b, c, d, e) == <<a, b, c, d, e>>

BINGO == W("B", "I", "N", "G", "O")
LATCH == W("L", "A", "T", "C", "H")
MATCH == W("M", "A", "T", "C", "H")
PATCH == W("P", "A", "T", "C", "H")
WATCH == W("W", "A", "T", "C", "H")
LUXES == W("L", "U", "X", "E", "S")
MUSKY == W("M", "U", "S", "K", "Y")
PUFFY == W("P", "U", "F", "F", "Y")
WEEDY == W("W", "E", "E", "D", "Y")
FUZZY == W("F", "U", "Z", "Z", "Y")
NOTCH == W("N", "O", "T", "C", "H")
TRACE == W("T", "R", "A", "C", "E")
SPEED == W("S", "P", "E", "E", "D")
ERASE == W("E", "R", "A", "S", "E")
BATCH == W("B", "A", "T", "C", "H")
CATCH == W("C", "A", "T", "C", "H")
HATCH == W("H", "A", "T", "C", "H")

\* words.txt of a seeding: the words in file order, and the STARTING_WORDS it
\* is seeded with.
SeedLatch ==
    [wordArray |-> <<WATCH, LATCH, BINGO, PATCH, MATCH>>,
     startingWords |-> {LUXES, MUSKY, PUFFY, WEEDY, BINGO, FUZZY}]

SeedEleven ==
    [wordArray |->
        <<W("A","F","M","P","U"), W("A","F","M","Q","V"), W("A","I","M","Q","V"),
          W("B","F","M","P","U"), W("B","F","M","P","V"), W("B","F","M","P","W"),
          W("B","F","M","P","X"), W("B","F","M","P","Y"), W("B","G","K","Q","V"),
          W("B","J","M","R","U"), W("D","F","M","P","U")>>,
     startingWords |-> {NOTCH}]

SeedAback ==
    [wordArray |-> <<ABASE, ABACK>>,
     startingWords |-> {ABACK, TRACE}]

\* Two words whose feedback depends on which of them is the guess.
SeedSpeed ==
    [wordArray |-> <<SPEED, ERASE>>,
     startingWords |-> {ERASE}]

\* Seven words that differ in their first letter only, and a starting word
\* that shares no letter with them.
SeedBatch ==
    [wordArray |-> <<WATCH, PATCH, MATCH, LATCH, HATCH, CATCH, BATCH>>,
     startingWords |-> {FUZZY}]

Seeds == {SeedLatch, SeedEleven, SeedAback, SeedSpeed, SeedBatch}

\* The seeding the direct calls of the search functions work on.
HarnessSeed ==
    [wordArray |-> <<WATCH, BINGO, PATCH, MATCH>>, startingWords |-> {LUXES}]

\* The most round=1 rows a seeding of the model inserts.
MaxStartWords == 5

\* The lists of at most MaxStartWords distinct words of a set.
StartLists(S) ==
    {l \in UNION {[1..n -> S] : n \in 0..MaxStartWords} :
        \A i, j \in DOMAIN l : i # j => l[i] # l[j]}

\* seed.ts 25-36: one round=1 row per starting word, expectedMoves 3.5, the
\* whole word list as candidateWords, no previous guess, feedback or hash.
SeedRows(wordArray, starting) ==
    [k \in 1..Len(starting) |->
        [round |-> 1,
         previousGuess |-> Null,
         feedback |-> Null,
         bestGuess |-> starting[k],
         expectedMoves |-> <<7, 2>>,
         candidateWords |-> wordArray,
         candidateHash |-> NullHash]]

-----------------------------------------------------------------------------
(* src/unnamed/part_001: the synchronous search over words                    *)
(*                                                                            *)
(* Its expected moves are kept exact as (a + b*log2(3) + c*log2(5)) / d,      *)
(* written <<a, b, c, d>> with d = 0 for Infinity: the depth-exhausted       *)
(* fallback returns 1 + (log2(n) - entropy), which is 1 + log2(PROD m^m) / n  *)
(* over the group sizes m, and the group sizes of the vocabularies below      *)
(* have no prime factor other than 2, 3 and 5.                                *)

LInfinity == <<1, 0, 0, 0>>

LZero == <<0, 0, 0, 1>>

LOne == <<1, 0, 0, 1>>

LIsInfinite(x) == x[4] = 0

LNorm(a, b, c, d) ==
    IF d = 0 THEN LInfinity
    ELSE LET k == GCD(GCD(GCD(a, b), c), d)
         IN <<a \div k, b \div k, c \div k, d \div k>>

\* x + y
LAdd(x, y) ==
    IF LIsInfinite(x) \/ LIsInfinite(y) THEN LInfinity
    ELSE LNorm(x[1] * y[4] + y[1] * x[4], x[2] * y[4] + y[2] * x[4],
               x[3] * y[4] + y[3] * x[4], x[4] * y[4])

\* (k / n) * x for 0 < k <= n
LScale(k, n, x) ==
    IF LIsInfinite(x) THEN LInfinity
    ELSE LNorm(k * x[1], k * x[2], k * x[3], n * x[4])

\* The sign of a + b*log2(3) + c*log2(5) for integers a, b, c, decided from
\* 1.58496 < log2(3) < 1.58497 and 2.32192 < log2(5) < 2.32193; a value these
\* bounds leave undecided is "undecided", which no comparison accepts.
LSign(a, b, c) ==
    LET lo == a * 100000 + b * (IF b >= 0 THEN 158496 ELSE 158497)
                         + c * (IF c >= 0 THEN 232192 ELSE 232193)
        hi == a * 100000 + b * (IF b >= 0 THEN 158497 ELSE 158496)
                         + c * (IF c >= 0 THEN 232193 ELSE 232192)
    IN IF b = 0 /\ c = 0 THEN (IF a < 0 THEN 0 - 1 ELSE IF a > 0 THEN 1 ELSE 0)
       ELSE IF hi <= 0 THEN 0 - 1
       ELSE IF lo >= 0 THEN 1
       ELSE "undecided"

\* x < y
LLess(x, y) ==
    IF LIsInfinite(x) THEN FALSE
    ELSE IF LIsInfinite(y) THEN TRUE
    ELSE LSign(x[1] * y[4] - y[1] * x[4], x[2] * y[4] - y[2] * x[4],
               x[3] * y[4] - y[3] * x[4]) < 0

\* x >= y
LGeq(x, y) == ~LLess(x, y)

\* localBestMoves <= 1.00001, for a value that is at least 1: a value above 1
\* with a logarithm in it exceeds 1 by at least log2(3) / d.
LNearOne(x) ==
    /\ ~LIsInfinite(x)
    /\ x[2] = 0
    /\ x[3] = 0
    /\ (x[1] - x[4]) * 100000 <= x[4]

\* getFeedback, first loop: greens, and the solution letter blanked.
MarkGreens(g, s) ==
    [feedback |-> SubSeq([i \in Positions |-> IF g[i] = s[i] THEN "2" ELSE ""],
                         1, WordLen),
     solutionChars |-> SubSeq([i \in Positions |-> IF g[i] = s[i] THEN "" ELSE s[i]],
                              1, WordLen)]

RECURSIVE MarkYellows(_, _, _)
\* getFeedback, second loop from position i on: "1" and the matched letter
\* blanked, or "0".
MarkYellows(g, st, i) ==
    IF i > WordLen THEN st
    ELSE IF st.feedback[i] # "" THEN MarkYellows(g, st, i + 1)
    ELSE IF IndexOf(st.solutionChars, g[i]) # 0
    THEN MarkYellows(g,
            [feedback |-> [st.feedback EXCEPT ![i] = "1"],
             solutionChars |->
                 [st.solutionChars EXCEPT ![IndexOf(st.solutionChars, g[i])] = ""]],
            i + 1)
    ELSE MarkYellows(g, [st EXCEPT !.feedback[i] = "0"], i + 1)

\* getFeedback(guess, solution): feedback.join(""), the string of five digits.
getFeedback(g, s) ==
    MarkYellows(g, MarkGreens(g, s), 1).feedback

\* buildFeedbackCache: cache[guess][answer] = getFeedback(guess, answer) for
\* all pairs of words of the candidate_words table.
buildFeedbackCache(fullCandidates) ==
    [g \in fullCandidates |-> [answer \in fullCandidates |-> getFeedback(g, answer)]]

\* The candidate_words table the feedback cache is built from: the words of
\* HarnessSeed among them.
CorpusWords == <<BINGO, LATCH, MATCH, PATCH, TRACE, WATCH>>

\* The words of the candidate_words table: the corpus and one word more.
CacheWords == Range(CorpusWords) \cup {FUZZY}

feedbackCache == buildFeedbackCache(CacheWords)

\* A property name that is a canonical array index: a digit string without a
\* leading zero.  Object.entries lists such keys first, in numeric order.
IsIndexKey(fb) == fb[1] # "0"

DigitValue(d) == IF d = "2" THEN 2 ELSE IF d = "1" THEN 1 ELSE 0

KeyNumber(fb) ==
    DigitValue(fb[1]) * 10000 + DigitValue(fb[2]) * 1000 + DigitValue(fb[3]) * 100
        + DigitValue(fb[4]) * 10 + DigitValue(fb[5])

\* Object.entries(feedbackGroups) of a guess over the candidates: the index-like
\* keys in ascending numeric order, then the other keys in insertion order.
GroupEntries(g, candidates) ==
    LET fbAt(k) == feedbackCache[g][candidates[k]]
        firsts == {k \in 1..Len(candidates) :
                      \A j \in 1..(k - 1) : fbAt(j) # fbAt(k)}
        indexKeys == {k \in firsts : IsIndexKey(fbAt(k))}
        byNumber == StableSortBy(SortedSeq(indexKeys),
                                 [k \in indexKeys |-> KeyNumber(fbAt(k))])
        order == byNumber \o SortedSeq(firsts \ indexKeys)
    IN [p \in 1..Len(order) |->
           [fb |-> fbAt(order[p]),
            group |-> SelectSeq(candidates,
                        LAMBDA w : feedbackCache[g][w] = fbAt(order[p]))]]

RECURSIVE SizeProduct(_, _)
\* PROD of m^m over the sizes m of the groups from position k on.
SizeProduct(entries, k) ==
    IF k > Len(entries) THEN 1
    ELSE (Len(entries[k].group) ^ Len(entries[k].group)) * SizeProduct(entries, k + 1)

\* oneStepEntropy(guess, candidates) = log2(n) - log2(WordEntropyRank) / n.
WordEntropyRank(g, candidates) == SizeProduct(GroupEntries(g, candidates), 1)

RECURSIVE Multiplicity(_, _)
\* The exponent of the prime p in n >= 1.
Multiplicity(p, n) == IF n % p # 0 THEN 0 ELSE 1 + Multiplicity(p, n \div p)

\* The fallback cost with the entropy of the guess left out: 1 + maxEnt.
FallbackCostNoGain(g, candidates) ==
    LAdd(LOne, LNorm(Multiplicity(2, Len(candidates)), Multiplicity(3, Len(candidates)),
                     Multiplicity(5, Len(candidates)), 1))

\* const cost = 1 + (maxEnt - ent)
FallbackCost(g, candidates) ==
    LET P == WordEntropyRank(g, candidates)
    IN LAdd(LOne, LNorm(Multiplicity(2, P), Multiplicity(3, P), Multiplicity(5, P),
                        Len(candidates)))

RECURSIVE FallbackLoopLast(_, _, _)
\* The fallback loop with "cost <= bestFallback": a later candidate of equal
\* cost replaces the best.
FallbackLoopLast(candidates, k, best) ==
    IF k > Len(candidates) THEN best
    ELSE IF ~LLess(best.moves, FallbackCost(candidates[k], candidates))
    THEN FallbackLoopLast(candidates, k + 1,
                          [guess |-> candidates[k],
                           moves |-> FallbackCost(candidates[k], candidates)])
    ELSE FallbackLoopLast(candidates, k + 1, best)

RECURSIVE FallbackLoop(_, _, _)
\* if (depthLeft === 0): the loop over the candidates from position k on; a
\* strictly smaller cost replaces the best.
FallbackLoop(candidates, k, best) ==
    IF k > Len(candidates) THEN best
    ELSE IF LLess(FallbackCost(candidates[k], candidates), best.moves)
    THEN FallbackLoop(candidates, k + 1,
                      [guess |-> candidates[k],
                       moves |-> FallbackCost(candidates[k], candidates)])
    ELSE FallbackLoop(candidates, k + 1, best)

\* guessOrder: the candidates by descending one-step entropy (a stable sort).
guessOrderOf(candidates) ==
    StableSortBy(candidates,
                 [g \in Range(candidates) |-> WordEntropyRank(g, candidates)])

\* The empty string "", as a word of no letters.
NoWord == <<>>

\* return { guess: candidates[0] || "", moves: 0 }
BaseResult(candidates) ==
    [guess |-> IF Len(candidates) = 0 THEN NoWord ELSE candidates[1], moves |-> LZero]

\* The memo lookup switched off: every call expands.
MemoHasNever(m, key) == FALSE

\* memo.has(memoKey)
MemoHas(m, key) == key \in DOMAIN m

RECURSIVE computeOptimalGuessRecursive1(_, _, _)
RECURSIVE SolveGuessLoop(_, _, _, _, _, _)
RECURSIVE SolveGroupLoop(_, _, _, _, _, _, _)

\* for (const [fb, group] of Object.entries(feedbackGroups)) from entry p on.
SolveGroupLoop(candidates, depthLeft, entries, p, expectedMoves, localBestMoves, st) ==
    IF p > Len(entries) THEN [expectedMoves |-> expectedMoves, st |-> st]
    ELSE
        LET group == entries[p].group
            subResult == computeOptimalGuessRecursive1(group, depthLeft - 1,
                                                       [st EXCEPT !.calls = @ + 1])
            added == IF Len(group) > 1
                     THEN LAdd(expectedMoves,
                               LScale(Len(group), Len(candidates),
                                      subResult.result.moves))
                     ELSE expectedMoves
            st2 == IF Len(group) > 1 THEN subResult.st ELSE st
        IN IF LGeq(added, localBestMoves)
           THEN [expectedMoves |-> LInfinity, st |-> st2]
           ELSE SolveGroupLoop(candidates, depthLeft, entries, p + 1, added,
                               localBestMoves, st2)

\* for (const guess of guessOrder) from guess g on.
SolveGuessLoop(candidates, depthLeft, guessOrder, g, localBest, st) ==
    IF g > Len(guessOrder) THEN [localBest |-> localBest, st |-> st]
    ELSE
        LET done == SolveGroupLoop(candidates, depthLeft,
                                   GroupEntries(guessOrder[g], candidates), 1,
                                   LOne, localBest.moves, st)
            better == [guess |-> guessOrder[g], moves |-> done.expectedMoves]
        IN IF LGeq(done.expectedMoves, done.st.progress.bestSoFar)
           THEN SolveGuessLoop(candidates, depthLeft, guessOrder, g + 1, localBest,
                               done.st)
           ELSE IF LLess(done.expectedMoves, localBest.moves)
           THEN IF LNearOne(done.expectedMoves)
                THEN [localBest |-> better, st |-> done.st]
                ELSE SolveGuessLoop(candidates, depthLeft, guessOrder, g + 1,
                                    better, done.st)
           ELSE SolveGuessLoop(candidates, depthLeft, guessOrder, g + 1, localBest,
                               done.st)

\* computeOptimalGuessRecursive of part_001 on st = [memo, progress, calls]:
\* its memo, its progress tracker and the number of recursive calls begun so
\* far; it returns [result, st].
computeOptimalGuessRecursive1(candidates, depthLeft, st) ==
    IF Len(candidates) <= 1
    THEN [result |-> BaseResult(candidates), st |-> st]
    ELSE IF depthLeft = 0
    THEN [result |-> FallbackLoop(candidates, 1,
                                  [guess |-> NoWord, moves |-> LInfinity]),
          st |-> st]
    ELSE
        LET memoKey == <<depthLeft, candidates>>
            expanded == [st EXCEPT !.progress.expansions = @ + 1]
            searched == SolveGuessLoop(candidates, depthLeft,
                                       guessOrderOf(candidates), 1,
                                       [guess |-> NoWord, moves |-> LInfinity],
                                       expanded)
            result == searched.localBest
            bestSoFar == IF depthLeft = MAX_ROUNDS
                            /\ LLess(result.moves, searched.st.progress.bestSoFar)
                         THEN result.moves
                         ELSE searched.st.progress.bestSoFar
        IN IF MemoHas(st.memo, memoKey)
           THEN [result |-> st.memo[memoKey], st |-> st]
           ELSE [result |-> result,
                 st |-> [memo |-> MemoSet(searched.st.memo, memoKey, result),
                         progress |-> [expansions |-> searched.st.progress.expansions,
                                       bestSoFar |-> bestSoFar],
                         calls |-> searched.st.calls]]

-----------------------------------------------------------------------------
(* 6. runPrecomputation (precompute.ts 389-478) *)

\* a < b in the order of String.prototype.localeCompare-free default sort
\* (UTF-16 code units): the first differing letter decides.
WordLess(a, b) ==
    \E i \in Positions :
        /\ \A j \in 1..(i - 1) : a[j] = b[j]
        /\ Ord(a[i]) < Ord(b[i])

RECURSIVE InsertWord(_, _)
InsertWord(sorted, w) ==
    IF sorted = <<>> THEN <<w>>
    ELSE IF WordLess(w, Head(sorted)) THEN <<w>> \o sorted
    ELSE <<Head(sorted)>> \o InsertWord(Tail(sorted), w)

RECURSIVE SortWords(_)
\* candidateWordsArr.sort()
SortWords(seq) ==
    IF seq = <<>> THEN <<>>
    ELSE InsertWord(SortWords(SubSeq(seq, 1, Len(seq) - 1)), seq[Len(seq)])

\* words = candidateWordsArr, as a 0-based array.
WordsArray(sortedSeq) == [i \in 0..(Len(sortedSeq) - 1) |-> sortedSeq[i + 1]]

\* words.forEach((w, i) => wordToIndex.set(w, i)): a later index overwrites an
\* earlier one.
IndexMap(ws, n) ==
    [w \in {ws[i] : i \in 0..(n - 1)} |->
        CHOOSE i \in 0..(n - 1) : ws[i] = w /\ \A j \in 0..(n - 1) : ws[j] = w => j <= i]

\* The feedback code of firstGuess against words[idx]: from the matrix when the
\* first guess is a candidate, computed directly otherwise.
FirstGuessCode(firstGuess, idx) ==
    IF firstGuess \in DOMAIN wordToIndex
    THEN feedbackMatrix[wordToIndex[firstGuess] * N + idx]
    ELSE getFeedbackCode(firstGuess, words[idx])

\* feedbackGroups of a starting word: Map<fbCode, number[]> in insertion order.
FeedbackGroupsOf(firstGuess) ==
    LET firsts == {i \in 0..(N - 1) :
                      \A j \in 0..(i - 1) :
                          FirstGuessCode(firstGuess, j) # FirstGuessCode(firstGuess, i)}
        order == SortedSeq(firsts)
    IN [p \in 1..Len(order) |->
           [code |-> FirstGuessCode(firstGuess, order[p]),
            members |-> SortedSeq({i \in 0..(N - 1) :
                            FirstGuessCode(firstGuess, i)
                                = FirstGuessCode(firstGuess, order[p])})]]

NoCall ==
    [candidateIndices |-> <<>>, depthLeft |-> 0, alpha |-> Infinity,
     made |-> FALSE, fresh |-> FALSE, threw |-> FALSE, result |-> NoResult,
     calls |-> 0, memoChanged |-> FALSE, storeChanged |-> FALSE, io |-> NoFaults]

\* The rows the search itself has stored (seeding stores round=1 rows only).
SearchRows(rows) == SelectSeq(rows, LAMBDA r : r.round # 1)

\* The record of one call of the search: its arguments, whether it started from
\* an empty memo and a table without search rows, what it returned, the number
\* of recursive calls it made, whether it wrote the memo or the table, and the
\* database connection as the call left it.
CallRecord(candidateIndices, depthLeft, alpha, out, st) ==
    [candidateIndices |-> candidateIndices, depthLeft |-> depthLeft,
     alpha |-> alpha, made |-> TRUE,
     fresh |-> (DOMAIN st.memo = {} /\ SearchRows(st.store) = <<>>),
     threw |-> out.threw, result |-> out.result,
     calls |-> out.st.calls,
     memoChanged |-> out.st.memo # st.memo,
     storeChanged |-> out.st.store # st.store,
     io |-> out.st.io]

EmptyMemo == [k \in {} |-> NoResult]

FbIdle ==
    /\ fbPc = "idle"
    /\ guess = <<>>
    /\ solution = <<>>
    /\ fbCode = NoCode
    /\ fbSwapped = NoCode
    /\ fbString = <<>>
    /\ fbDirect = <<>>

NoHash == [hashA |-> <<>>, hashB |-> <<>>, after |-> <<>>]

HashIdle ==
    /\ hashArgs = <<>>
    /\ hashOut = NoHash

\* One run of the script on a freshly seeded database.
RunsIdle ==
    /\ runCount = 0
    /\ runStart = 0
    /\ prevCompleted = FALSE

\* const memo = new Map(); const progress = { expansions: 0, bestSoFar: Infinity }
NewProgress == [expansions |-> 0, bestSoFar |-> LInfinity]

NoSolve ==
    [candidates |-> <<>>, depthLeft |-> 0, made |-> FALSE, fresh |-> FALSE,
     result |-> [guess |-> NoWord, moves |-> LZero], expansions |-> 0, calls |-> 0,
     memoChanged |-> FALSE, progressChanged |-> FALSE]

\* The record of one call of the part_001 search: its arguments, whether it
\* started from an empty memo and a new progress tracker, what it returned, the
\* expansions and the recursive calls it made, and whether it wrote the memo
\* or the progress tracker.
SolveRecord(candidates, depthLeft, out, st) ==
    [candidates |-> candidates, depthLeft |-> depthLeft, made |-> TRUE,
     fresh |-> (st.memo = EmptyMemo /\ st.progress = NewProgress),
     result |-> out.result,
     expansions |-> out.st.progress.expansions - st.progress.expansions,
     calls |-> out.st.calls,
     memoChanged |-> out.st.memo # st.memo,
     progressChanged |-> out.st.progress # st.progress]

Part1Idle ==
    /\ memo1 = EmptyMemo
    /\ progress = NewProgress
    /\ lastSolve = NoSolve
    /\ prevSolve = NoSolve
    /\ callCount = 0

\* No run of the search: the state of precompute.ts and part_001 untouched.
SearchIdle ==
    /\ words = <<>>
    /\ wordToIndex = <<>>
    /\ feedbackMatrix = <<>>
    /\ N = 0
    /\ memo = EmptyMemo
    /\ store = <<>>
    /\ pc = "idle"
    /\ round1Rows = <<>>
    /\ rowIdx = 0
    /\ feedbackGroups = <<>>
    /\ groupIdx = 0
    /\ lastCall = NoCall
    /\ prevCall = NoCall
    /\ Part1Idle

Init ==
    /\ \E seed \in Seeds :
         \E starting \in StartLists(seed.startingWords) :
            store = SeedRows(seed.wordArray, starting)
    /\ words = <<>>
    /\ wordToIndex = <<>>
    /\ feedbackMatrix = <<>>
    /\ N = 0
    /\ memo = EmptyMemo
    /\ pc = "start"
    /\ round1Rows = <<>>
    /\ rowIdx = 0
    /\ feedbackGroups = <<>>
    /\ groupIdx = 0
    /\ lastCall = NoCall
    /\ prevCall = NoCall
    /\ Part1Idle
    /\ FbIdle
    /\ HashIdle
    /\ RunsIdle

\* const round1Rows = await db.query.bestGuesses.findMany(round = 1)
Round1RowsOf(rows) == SelectSeq(rows, LAMBDA r : r.round = 1)

\* if (!round1Rows || round1Rows.length === 0) { console.error(...); return; }
NoRound1Rows ==
    /\ pc = "start"
    /\ Round1RowsOf(store) = <<>>
    /\ pc' = "done"
    /\ UNCHANGED <<words, wordToIndex, feedbackMatrix, N, memo, store, round1Rows,
                   rowIdx, feedbackGroups, groupIdx, lastCall, prevCall, part1Vars, fbVars, hashVars, runsVars>>

\* The set-up phase: the vocabulary from the first round=1 row, sorted; the
\* index map; the feedback matrix.
SetUp ==
    /\ pc = "start"
    /\ Round1RowsOf(store) # <<>>
    /\ round1Rows' = Round1RowsOf(store)
    /\ LET sortedWords == SortWords(Round1RowsOf(store)[1].candidateWords)
       IN /\ words' = WordsArray(sortedWords)
          /\ N' = Len(sortedWords)
          /\ wordToIndex' = IndexMap(WordsArray(sortedWords), Len(sortedWords))
          /\ feedbackMatrix' = buildFeedbackMatrix(WordsArray(sortedWords),
                                                   Len(sortedWords))
    /\ rowIdx' = 1
    /\ pc' = "rows"
    /\ UNCHANGED <<memo, store, feedbackGroups, groupIdx, lastCall, prevCall,
                   part1Vars, fbVars, hashVars, runsVars>>

\* for (const round1Row of round1Rows): the feedback groups of its first guess.
BeginRow ==
    /\ pc = "rows"
    /\ rowIdx <= Len(round1Rows)
    /\ round1Rows[rowIdx].bestGuess # <<>>
    /\ feedbackGroups' = FeedbackGroupsOf(round1Rows[rowIdx].bestGuess)
    /\ groupIdx' = 1
    /\ pc' = "groups"
    /\ UNCHANGED <<words, wordToIndex, feedbackMatrix, N, memo, store, round1Rows,
                   rowIdx, lastCall, prevCall, part1Vars, fbVars, hashVars, runsVars>>

\* for (const [fbCode, group] of feedbackGroups.entries()):
\*   await computeOptimalGuessRecursive(groupSorted, MAX_ROUNDS - 1, Infinity,
\*                                      firstGuess, feedbackToString(fbCode))
SearchGroup ==
    /\ pc = "groups"
    /\ groupIdx <= Len(feedbackGroups)
    /\ LET group == feedbackGroups[groupIdx]
           st == [memo |-> memo, store |-> store, calls |-> 0, io |-> NoFaults]
       IN \E out \in {computeOptimalGuessRecursive(
                          group.members, MAX_ROUNDS - 1, Infinity,
                          round1Rows[rowIdx].bestGuess,
                          feedbackToString(group.code), st)} :
             /\ memo' = out.st.memo
             /\ store' = out.st.store
             /\ lastCall' = CallRecord(group.members, MAX_ROUNDS - 1, Infinity,
                                       out, st)
             /\ prevCall' = lastCall
    /\ groupIdx' = groupIdx + 1
    /\ UNCHANGED <<words, wordToIndex, feedbackMatrix, N, pc, round1Rows, rowIdx,
                   feedbackGroups, part1Vars, fbVars, hashVars, runsVars>>

\* the groups of the current row are exhausted: the next round1Row
EndRow ==
    /\ pc = "groups"
    /\ groupIdx > Len(feedbackGroups)
    /\ rowIdx' = rowIdx + 1
    /\ pc' = "rows"
    /\ UNCHANGED <<words, wordToIndex, feedbackMatrix, N, memo, store, round1Rows,
                   feedbackGroups, groupIdx, lastCall, prevCall, part1Vars, fbVars, hashVars, runsVars>>

\* "Precomputation for round 2 complete for all starting words!"
Finish ==
    /\ pc = "rows"
    /\ rowIdx > Len(round1Rows)
    /\ pc' = "done"
    /\ UNCHANGED <<words, wordToIndex, feedbackMatrix, N, memo, store, round1Rows,
                   rowIdx, feedbackGroups, groupIdx, lastCall, prevCall, part1Vars, fbVars, hashVars, runsVars>>

Next ==
    \/ NoRound1Rows
    \/ SetUp
    \/ BeginRow
    \/ SearchGroup
    \/ EndRow
    \/ Finish

Spec == Init /\ [][Next]_vars

-----------------------------------------------------------------------------
(* Direct calls of one of the two search functions on one vocabulary: any     *)
(* candidate set of the vocabulary, several depths and alphas, at most        *)
(* MaxCalls calls, each on the memo and the table the calls before it left.   *)
(* pc = "calls" calls precompute.ts, pc = "calls1" calls part_001.            *)

\* The number of direct calls.
MaxCalls == 2

HarnessWords == SortWords(HarnessSeed.wordArray)

\* Candidate sets as arrays of indices in ascending order, the empty one included.
HarnessIndexSets == {SortedSeq(S) : S \in SUBSET (0..(Len(HarnessWords) - 1))}

\* The same candidate sets as arrays of words.
HarnessWordSets ==
    {[k \in 1..Len(ix) |-> HarnessWords[ix[k] + 1]] : ix \in HarnessIndexSets}

HarnessDepths == {0, MAX_ROUNDS - 1}

HarnessAlphas == {Infinity, <<3, 2>>}

HarnessDepths1 == {0, 1, MAX_ROUNDS}

\* The state runPrecomputation's set-up phase leaves for HarnessSeed, and a
\* fresh memo and progress tracker of part_001.
CallInit ==
    /\ words = WordsArray(HarnessWords)
    /\ N = Len(HarnessWords)
    /\ wordToIndex = IndexMap(WordsArray(HarnessWords), Len(HarnessWords))
    /\ feedbackMatrix = buildFeedbackMatrix(WordsArray(HarnessWords), Len(HarnessWords))
    /\ memo = EmptyMemo
    /\ pc \in {"calls", "calls1"}
    /\ store = SeedRows(HarnessSeed.wordArray, <<LUXES>>)
    /\ round1Rows = SeedRows(HarnessSeed.wordArray, <<LUXES>>)
    /\ rowIdx = 0
    /\ feedbackGroups = <<>>
    /\ groupIdx = 0
    /\ lastCall = NoCall
    /\ prevCall = NoCall
    /\ Part1Idle
    /\ FbIdle
    /\ HashIdle
    /\ RunsIdle

runVars == <<words, wordToIndex, feedbackMatrix, N, pc, round1Rows, rowIdx,
             feedbackGroups, groupIdx>>

\* await computeOptimalGuessRecursive(candidateIndices, depthLeft, alpha, "", "")
CallSearch ==
    /\ pc = "calls"
    /\ callCount < MaxCalls
    /\ \E candidateIndices \in HarnessIndexSets, depthLeft \in HarnessDepths,
          alpha \in HarnessAlphas :
          LET st == [memo |-> memo, store |-> store, calls |-> 0, io |-> NoFaults]
          IN \E out \in {computeOptimalGuessRecursive(candidateIndices, depthLeft,
                                                      alpha, "", "", st)} :
                /\ memo' = out.st.memo
                /\ store' = out.st.store
                /\ lastCall' = CallRecord(candidateIndices, depthLeft, alpha, out, st)
                /\ prevCall' = lastCall
    /\ callCount' = callCount + 1
    /\ UNCHANGED <<runVars, memo1, progress, lastSolve, prevSolve, fbVars, hashVars, runsVars>>

\* An earlier run of runPrecomputation on the seeded table, over before the
\* direct calls begin: its one top-level call is on the whole vocabulary (LUXES
\* is gray against every word); its rows stay in the table, its memo is gone.
EarlierRun ==
    /\ pc = "calls"
    /\ callCount = 0
    /\ memo = EmptyMemo
    /\ store = round1Rows
    /\ \E out \in {computeOptimalGuessRecursive(
                       SortedSeq(0..(N - 1)), MAX_ROUNDS - 1, Infinity,
                       round1Rows[1].bestGuess, feedbackToString(0),
                       [memo |-> EmptyMemo, store |-> store, calls |-> 0, io |-> NoFaults])} :
          store' = out.st.store
    /\ UNCHANGED <<runVars, memo, lastCall, prevCall, part1Vars, fbVars, hashVars, runsVars>>

\* A new run of the script: the module-level memo starts empty, the table is
\* the database file the runs before left.
Restart ==
    /\ pc = "calls"
    /\ memo # EmptyMemo
    /\ memo' = EmptyMemo
    /\ lastCall' = NoCall
    /\ prevCall' = NoCall
    /\ UNCHANGED <<runVars, store, part1Vars, fbVars, hashVars, runsVars>>

\* computeOptimalGuessRecursive(candidates, depthLeft, feedbackCache, memo, progress)
CallSolve ==
    /\ pc = "calls1"
    /\ callCount < MaxCalls
    /\ \E candidates \in HarnessWordSets, depthLeft \in HarnessDepths1 :
          LET st == [memo |-> memo1, progress |-> progress, calls |-> 0]
          IN \E out \in {computeOptimalGuessRecursive1(candidates, depthLeft, st)} :
                /\ memo1' = out.st.memo
                /\ progress' = out.st.progress
                /\ lastSolve' = SolveRecord(candidates, depthLeft, out, st)
                /\ prevSolve' = lastSolve
    /\ callCount' = callCount + 1
    /\ UNCHANGED <<runVars, memo, store, lastCall, prevCall, fbVars, hashVars, runsVars>>

\* A new context: computeConditionalGuesses creates a fresh memo and a fresh
\* progress tracker for its calls.
NewContext ==
    /\ pc = "calls1"
    /\ memo1 # EmptyMemo
    /\ memo1' = EmptyMemo
    /\ progress' = NewProgress
    /\ lastSolve' = NoSolve
    /\ prevSolve' = NoSolve
    /\ UNCHANGED <<runVars, memo, store, lastCall, prevCall, callCount, fbVars, hashVars, runsVars>>

CallNext ==
    \/ CallSearch
    \/ EarlierRun
    \/ Restart
    \/ CallSolve
    \/ NewContext

CallSpec == CallInit /\ [][CallNext]_vars

-----------------------------------------------------------------------------
(* The optimum the search is meant to compute *)

RECURSIVE EStar(_)
RECURSIVE GroupsCost(_, _, _)

\* SUM over the groups from position p on, of size > 1, of (|G| / n) * E*(G).
GroupsCost(parts, p, n) ==
    IF p > Len(parts) THEN Zero
    ELSE RAdd(IF Len(parts[p].members) > 1
              THEN RMul(Norm(Len(parts[p].members), n), EStar(parts[p].members))
              ELSE Zero,
              GroupsCost(parts, p + 1, n))

\* The expected cost of guess g on the candidate set S, with optimal play below.
GuessCost(g, S) == RAdd(One, GroupsCost(Partitions(g, S), 1, Len(S)))

\* E*(S) = min over g in S of GuessCost(g, S): the recursion with no pruning and
\* no memo; 0 for a single candidate.
EStar(S) ==
    IF Len(S) <= 1 THEN Zero
    ELSE LET costs == {GuessCost(S[k], S) : k \in 1..Len(S)}
         IN CHOOSE c \in costs : \A d \in costs : RLeq(c, d)

\* The result of the same call made with alpha = Infinity on an empty memo and
\* an empty table.
FreshResult(candidateIndices, depthLeft) ==
    computeOptimalGuessRecursive(
        candidateIndices, depthLeft, Infinity, "", "",
        [memo |-> EmptyMemo, store |-> <<>>, calls |-> 0, io |-> NoFaults]).result

-----------------------------------------------------------------------------
(* Claims *)

\* C1: a call on a candidate set of two or more words, made with alpha =
\* Infinity on an empty memo and an empty store, returns the optimal expected
\* number of moves E*(S) and a guess that attains it.
C1_Optimal ==
    (/\ lastCall.made
     /\ lastCall.fresh
     /\ IsInfinite(lastCall.alpha)
     /\ Len(lastCall.candidateIndices) >= 2)
    => /\ lastCall.result.expectedMoves = EStar(lastCall.candidateIndices)
       /\ lastCall.result.bestGuess \in Range(lastCall.candidateIndices)
       /\ GuessCost(lastCall.result.bestGuess, lastCall.candidateIndices)
              = EStar(lastCall.candidateIndices)

\* C2: no memo entry and no row of best_guesses ever holds expectedMoves =
\* Infinity.
C2_NoInfinityPersisted ==
    /\ \A k \in DOMAIN memo : ~IsInfinite(memo[k].expectedMoves)
    /\ \A k \in 1..Len(store) : ~IsInfinite(store[k].expectedMoves)

\* C3: every top-level call of runPrecomputation (a non-empty group, depthLeft
\* = 5, alpha = Infinity) returns a finite expectedMoves.
C3_TopLevelFinite ==
    (/\ pc = "groups"
     /\ lastCall.made
     /\ lastCall.depthLeft = MAX_ROUNDS - 1
     /\ IsInfinite(lastCall.alpha))
    => ~IsInfinite(lastCall.result.expectedMoves)

\* C4: whatever the memo and the store hold from earlier calls, a call returns
\* the result a fresh computation with alpha = Infinity returns for the same
\* candidate set and depthLeft.
C4_MemoExact ==
    (lastCall.made /\ ~lastCall.threw)
    => lastCall.result = FreshResult(lastCall.candidateIndices, lastCall.depthLeft)

\* C5: two calls in a row with the same candidate set and the same depthLeft in
\* the same context return identical results, and the second call does no
\* expansion: in part_001 progress.expansions is unchanged by it; in
\* precompute.ts it makes no recursive call and writes neither memo nor store.
C5_MemoTransparent ==
    /\ (/\ lastCall.made
        /\ prevCall.made
        /\ ~lastCall.threw
        /\ lastCall.candidateIndices = prevCall.candidateIndices
        /\ lastCall.depthLeft = prevCall.depthLeft)
       => /\ lastCall.result = prevCall.result
          /\ lastCall.calls = 0
          /\ ~lastCall.memoChanged
          /\ ~lastCall.storeChanged
    /\ (/\ lastSolve.made
        /\ prevSolve.made
        /\ lastSolve.candidates = prevSolve.candidates
        /\ lastSolve.depthLeft = prevSolve.depthLeft)
       => /\ lastSolve.result = prevSolve.result
          /\ lastSolve.expansions = 0

\* C5 witness: a candidate set of three or more words searched twice in a row
\* by precompute.ts, the first call recursing and writing the memo; or by
\* part_001, the first call expanding.
C5_Witness ==
    \/ /\ lastCall.made
       /\ prevCall.made
       /\ Len(lastCall.candidateIndices) >= 3
       /\ lastCall.candidateIndices = prevCall.candidateIndices
       /\ lastCall.depthLeft = prevCall.depthLeft
       /\ prevCall.calls > 0
       /\ prevCall.memoChanged
       /\ lastCall.calls = 0
    \/ /\ lastSolve.made
       /\ prevSolve.made
       /\ Len(lastSolve.candidates) >= 3
       /\ lastSolve.candidates = prevSolve.candidates
       /\ lastSolve.depthLeft = prevSolve.depthLeft
       /\ prevSolve.expansions > 0
       /\ lastSolve.expansions = 0

\* C6: on a candidate set of a single word W, at any depthLeft >= 0, both
\* searches return guess W with expectedMoves 0 without a recursive call,
\* whatever memo and store hold from earlier calls.
C6_SingleCandidate ==
    /\ (lastCall.made /\ Len(lastCall.candidateIndices) = 1)
       => /\ ~lastCall.threw
          /\ lastCall.result.bestGuess = lastCall.candidateIndices[1]
          /\ lastCall.result.expectedMoves = Zero
          /\ lastCall.calls = 0
    /\ (lastSolve.made /\ Len(lastSolve.candidates) = 1)
       => /\ lastSolve.result.guess = lastSolve.candidates[1]
          /\ lastSolve.result.moves = LZero
          /\ lastSolve.calls = 0
          /\ lastSolve.expansions = 0

\* C6 witness: a single candidate searched by precompute.ts after a call that
\* left an entry with expectedMoves = Infinity in the memo, returning 0 moves.
C6_Witness ==
    /\ lastCall.made
    /\ Len(lastCall.candidateIndices) = 1
    /\ lastCall.result.expectedMoves = Zero
    /\ prevCall.made
    /\ \E k \in DOMAIN memo : IsInfinite(memo[k].expectedMoves)

\* C7: computeOptimalGuessRecursive of precompute.ts called with an empty
\* candidate set throws, and leaves memo and store as they were.
C7_EmptyThrows ==
    (lastCall.made /\ Len(lastCall.candidateIndices) = 0)
    => /\ lastCall.threw
       /\ ~lastCall.memoChanged
       /\ ~lastCall.storeChanged

\* C7 witness: the empty candidate set passed after a call that filled the
\* memo and the store; the call threw.
C7_Witness ==
    /\ lastCall.made
    /\ Len(lastCall.candidateIndices) = 0
    /\ lastCall.threw
    /\ prevCall.made
    /\ prevCall.memoChanged
    /\ prevCall.storeChanged
    /\ memo # EmptyMemo

\* C12: the table buildFeedbackMatrix returns in the set-up phase has exactly
\* N * N entries, entry i * N + j being getFeedbackCode(words[i], words[j])
\* itself (no truncation by the byte it is stored in), and no later step of the
\* run, a search call in particular, changes the table.
C12_MatrixIsTable ==
    [][/\ (pc = "start" /\ pc' = "rows")
          => /\ N' = Cardinality(DOMAIN words')
             /\ DOMAIN feedbackMatrix' = 0..(N' * N' - 1)
             /\ \A i, j \in 0..(N' - 1) :
                   feedbackMatrix'[i * N' + j] = getFeedbackCode(words'[i], words'[j])
       /\ pc # "start"
          => /\ feedbackMatrix' = feedbackMatrix
             /\ words' = words
             /\ N' = N]_vars

\* C12 witness: the table of ERASE and SPEED, whose two off-diagonal entries
\* differ, after the search calls on the groups of the starting word.
C12_Witness ==
    /\ pc = "done"
    /\ lastCall.made
    /\ N = 2
    /\ words[0] = ERASE
    /\ words[1] = SPEED
    /\ feedbackMatrix[0 * N + 1] = getFeedbackCode(ERASE, SPEED)
    /\ feedbackMatrix[1 * N + 0] = getFeedbackCode(SPEED, ERASE)
    /\ feedbackMatrix[0 * N + 1] # feedbackMatrix[1 * N + 0]
    /\ feedbackMatrix[0] = CORRECT_CODE

\* The guesses of S whose expected cost, with optimal play below, is the
\* minimum E*(S).
MinimalGuesses(S) ==
    LET best == EStar(S)
    IN {g \in Range(S) : GuessCost(g, S) = best}

\* The member of a non-empty set T of candidates that comes first in guessList.
FirstInGuessList(S, T) ==
    LET guessList == guessListOf(S)
        k == CHOOSE i \in 1..Len(guessList) :
                 /\ guessList[i] \in T
                 /\ \A j \in 1..(i - 1) : guessList[j] \notin T
    IN guessList[k]

\* C15: when two or more guesses of the candidate set attain the minimal
\* expected cost, a call of computeOptimalGuessRecursive returns the one of
\* them that comes first in guessList.
C15_FirstMinimalWins ==
    (/\ lastCall.made
     /\ ~lastCall.threw
     /\ Len(lastCall.candidateIndices) >= 2)
    => LET minimal == MinimalGuesses(lastCall.candidateIndices)
       IN Cardinality(minimal) >= 2
          => lastCall.result.bestGuess
                 = FirstInGuessList(lastCall.candidateIndices, minimal)

\* C18: every call of computeOptimalGuessRecursive in a run has depthLeft >= 1
\* (the memo keys hold the depthLeft of the calls), and every row a call stored
\* has a round between 2 and MAX_ROUNDS (a row of round 1 is a seeded one: the
\* top-level calls have depthLeft = MAX_ROUNDS - 1).
C18_DepthAtLeastOne ==
    /\ \A key \in DOMAIN memo : key[1] >= 1
    /\ \A k \in 1..Len(store) : store[k].round \in 1..MAX_ROUNDS

\* C19: when the run has completed, best_guesses holds, for every round=1
\* starting word and every vocabulary word, a round=2 row whose previousGuess
\* is the starting word and whose feedback is the 5-digit string of the
\* feedback of the starting word against the vocabulary word.
C19_RoundTwoCoverage ==
    pc = "done"
    => \A r \in 1..Len(round1Rows), i \in 0..(N - 1) :
          \E k \in 1..Len(store) :
             /\ store[k].round = 2
             /\ store[k].previousGuess = round1Rows[r].bestGuess
             /\ store[k].feedback
                    = feedbackToString(
                          getFeedbackCode(round1Rows[r].bestGuess, words[i]))

-----------------------------------------------------------------------------
(* The set-up phase on its own, on any word list seeding can store: words.txt *)
(* is not checked for repeated words by seed.ts, and runPrecomputation takes  *)
(* the list of the first round=1 row as it is.                                *)

\* The most words of a words.txt of the model.
MaxFileWords == 3

FileWords == {ABACK, ABASE, TRACE}

\* wordArray of seed.ts: the 5-letter tokens of words.txt in file order, a word
\* as often as the file holds it.
WordArrays == UNION {[1..n -> FileWords] : n \in 0..MaxFileWords}

SetUpInit ==
    /\ \E wordArray \in WordArrays, starting \in {<<>>, <<TRACE>>, <<TRACE, LUXES>>} :
          store = SeedRows(wordArray, starting)
    /\ words = <<>>
    /\ wordToIndex = <<>>
    /\ feedbackMatrix = <<>>
    /\ N = 0
    /\ memo = EmptyMemo
    /\ pc = "start"
    /\ round1Rows = <<>>
    /\ rowIdx = 0
    /\ feedbackGroups = <<>>
    /\ groupIdx = 0
    /\ lastCall = NoCall
    /\ prevCall = NoCall
    /\ Part1Idle
    /\ FbIdle
    /\ HashIdle
    /\ RunsIdle

SetUpNext ==
    \/ NoRound1Rows
    \/ SetUp

SetUpSpec == SetUpInit /\ [][SetUpNext]_vars

\* C13: after the set-up phase the vocabulary words has no repeated entry and
\* wordToIndex.get(words[i]) = i for every index i, whatever word list the
\* round=1 row holds.
C13_IndexConsistent ==
    pc = "rows"
    => /\ \A i, j \in 0..(N - 1) : i # j => words[i] # words[j]
       /\ \A i \in 0..(N - 1) :
             words[i] \in DOMAIN wordToIndex /\ wordToIndex[words[i]] = i

-----------------------------------------------------------------------------
(* candidateSetHash on its own: two arrays of candidate indices, each without *)
(* a repeated index and in any order, are hashed.                             *)

\* The number of vocabulary indices the arrays are drawn from.
NumIndices == 4

\* The arrays of distinct indices below NumIndices, in every order.
IndexArrays ==
    {a \in UNION {[1..n -> 0..(NumIndices - 1)] : n \in 0..NumIndices} :
        \A i, j \in DOMAIN a : i # j => a[i] # a[j]}

HashInit ==
    /\ hashArgs \in IndexArrays \X IndexArrays
    /\ hashOut = NoHash
    /\ RunsIdle
    /\ SearchIdle
    /\ FbIdle

\* candidateSetHash(a) and candidateSetHash(b)
HashBoth ==
    /\ hashOut = NoHash
    /\ hashOut' = [hashA |-> <<candidateSetHash(hashArgs[1])>>,
                   hashB |-> <<candidateSetHash(hashArgs[2])>>,
                   after |-> <<HashCall(hashArgs[1]).candidates>>]
    /\ UNCHANGED <<hashArgs, searchVars, fbVars, runsVars>>

HashNext == HashBoth

HashSpec == HashInit /\ [][HashNext]_vars

\* C14: two arrays with the same members, in whatever order, have the same
\* candidateSetHash, hence the same memo key at every depthLeft and the same
\* (round, hash) store key; and the array handed to candidateSetHash is
\* unchanged by the call.
C14_HashOfMembers ==
    hashOut # NoHash
    => /\ Range(hashArgs[1]) = Range(hashArgs[2])
          => /\ hashOut.hashA = hashOut.hashB
             /\ \A depthLeft \in 0..MAX_ROUNDS :
                   /\ MemoKeyOf(depthLeft, hashOut.hashA[1])
                         = MemoKeyOf(depthLeft, hashOut.hashB[1])
                   /\ <<MAX_ROUNDS - depthLeft + 1, hashOut.hashA[1]>>
                         = <<MAX_ROUNDS - depthLeft + 1, hashOut.hashB[1]>>
       /\ hashOut.after[1] = hashArgs[1]

\* C14 witness: the members 0, 1, 2 handed in as 2, 0, 1 and as 1, 2, 0: one
\* hash, and the first array still 2, 0, 1.
C14_Witness ==
    /\ hashArgs = <<(<<2, 0, 1>>), (<<1, 2, 0>>)>>
    /\ hashOut # NoHash
    /\ hashOut.hashA = hashOut.hashB
    /\ hashOut.after = <<(<<2, 0, 1>>)>>

-----------------------------------------------------------------------------
(* The feedback encoder on its own: every pair of EncoderWords is encoded,    *)
(* in both orders of guess and solution.                                      *)

FbInit ==
    /\ fbPc = "input"
    /\ guess \in EncoderWords
    /\ solution \in EncoderWords
    /\ fbCode = NoCode
    /\ fbSwapped = NoCode
    /\ fbString = <<>>
    /\ fbDirect = <<>>
    /\ SearchIdle
    /\ HashIdle
    /\ RunsIdle

\* getFeedbackCode(guess, solution), and the same pair with the roles
\* exchanged: getFeedbackCode(solution, guess)
Encode ==
    /\ fbPc = "input"
    /\ fbCode' = getFeedbackCode(guess, solution)
    /\ fbSwapped' = getFeedbackCode(solution, guess)
    /\ fbPc' = "encoded"
    /\ UNCHANGED <<guess, solution, fbString, fbDirect, searchVars, hashVars, runsVars>>

FbNext == Encode

FeedbackSpec == FbInit /\ [][FbNext]_vars

\* The number of positions of w that hold letter c.
Occurrences(w, c) == Cardinality({i \in Positions : w[i] = c})

\* The number of positions of the guess that hold letter c and are marked
\* PRESENT (1) or HIT (2) in the code.
Marked(g, code, c) ==
    Cardinality({i \in Positions : g[i] = c /\ DigitOf(code, i) \in {1, 2}})

\* C8: getFeedbackCode marks position i HIT exactly when guess[i] = solution[i];
\* so the code is 242 exactly when guess = solution, and ABACK against ABASE
\* has HIT at positions 0 and 1.
C8_HitIffEqual ==
    fbPc # "input"
    => /\ \A i \in Positions : (DigitOf(fbCode, i) = 2) <=> (guess[i] = solution[i])
       /\ (fbCode = CORRECT_CODE) <=> (guess = solution)
       /\ (guess = ABACK /\ solution = ABASE)
            => (DigitOf(fbCode, 1) = 2 /\ DigitOf(fbCode, 2) = 2)

\* C8 witness: ABACK has been encoded against ABASE.
C8_Witness ==
    /\ fbPc = "encoded"
    /\ guess = ABACK
    /\ solution = ABASE
    /\ fbCode = 2 * 81 + 2 * 27 + 2 * 9

\* C9: for every letter, the positions of the guess holding it that are marked
\* PRESENT or HIT are at most its occurrences in the solution and at most its
\* occurrences in the guess.
C9_MarksBounded ==
    fbPc # "input"
    => \A c \in Range(guess) \cup Range(solution) :
          LET marked == Marked(guess, fbCode, c)
          IN /\ marked <= Occurrences(solution, c)
             /\ marked <= Occurrences(guess, c)

\* C9 witness: a guess with a letter three times against a solution holding it
\* once elsewhere: exactly one of the three is marked.
C9_Witness ==
    /\ fbPc = "encoded"
    /\ guess = <<"A", "A", "A", "B", "B">>
    /\ solution = <<"B", "B", "C", "A", "C">>
    /\ Marked(guess, fbCode, "A") = 1
    /\ Occurrences(guess, "A") = 3

\* A guess with a repeated letter against a solution holding that letter once.
AsymGuess == <<"A", "A", "B", "C", "C">>

AsymSolution == <<"C", "B", "A", "C", "C">>

\* C10: getFeedbackCode is not symmetric: for the pair AsymGuess, AsymSolution
\* the code of the guess against the solution differs from the code of the
\* solution against the guess.
C10_NotSymmetric ==
    (fbPc = "encoded" /\ guess = AsymGuess /\ solution = AsymSolution)
    => fbCode # fbSwapped

\* C10 witness: both codes of the pair have been computed and they differ.
C10_Witness ==
    /\ fbPc = "encoded"
    /\ guess = AsymGuess
    /\ solution = AsymSolution
    /\ Occurrences(guess, "A") = 2
    /\ Occurrences(solution, "A") = 1
    /\ fbCode # fbSwapped

-----------------------------------------------------------------------------
(* The two representations of a feedback side by side: every pair of          *)
(* EncoderWords is encoded by getFeedbackCode and by getFeedback of part_001,  *)
(* and every integer 0..242 is converted by feedbackToString.                  *)

\* The integers a feedback code can be: five base-3 digits.
Codes == 0..CORRECT_CODE

\* The inputs: a pair of words for the two encoders, or a bare code for
\* feedbackToString.
TextInit ==
    /\ \/ /\ fbPc = "input"
          /\ guess \in EncoderWords
          /\ solution \in EncoderWords
          /\ fbCode = NoCode
       \/ /\ fbPc = "code"
          /\ guess = <<>>
          /\ solution = <<>>
          /\ fbCode \in Codes
    /\ fbSwapped = NoCode
    /\ fbString = <<>>
    /\ fbDirect = <<>>
    /\ SearchIdle
    /\ HashIdle
    /\ RunsIdle

\* feedbackToString(getFeedbackCode(guess, solution)), and the string
\* getFeedback of part_001 returns for the same pair.
EncodeBoth ==
    /\ fbPc = "input"
    /\ \E code \in {getFeedbackCode(guess, solution)} :
          /\ fbCode' = code
          /\ fbString' = feedbackToString(code)
    /\ fbDirect' = getFeedback(guess, solution)
    /\ fbPc' = "encoded"
    /\ UNCHANGED <<guess, solution, fbSwapped, searchVars, hashVars, runsVars>>

\* feedbackToString(fbCode) of a bare code
Convert ==
    /\ fbPc = "code"
    /\ fbString' = feedbackToString(fbCode)
    /\ fbPc' = "converted"
    /\ UNCHANGED <<guess, solution, fbCode, fbSwapped, fbDirect, searchVars, hashVars, runsVars>>

TextNext ==
    \/ EncodeBoth
    \/ Convert

TextSpec == TextInit /\ [][TextNext]_vars

\* The 5-character strings over the digits 0, 1, 2.
DigitStrings == [Positions -> {"0", "1", "2"}]

\* C11: for every pair of words the code of getFeedbackCode lies in 0..242 and
\* feedbackToString of it is the string getFeedback of part_001 returns for the
\* pair; feedbackToString maps 0..242 one-to-one onto the 5-character strings
\* over {0, 1, 2} (every code gives such a string, no other code gives the same
\* one, and the 243 codes give 243 strings).
C11_RepresentationsAgree ==
    /\ fbPc = "encoded"
       => /\ fbCode \in Codes
          /\ fbString = fbDirect
    /\ fbPc = "converted"
       => /\ fbString \in DigitStrings
          /\ \A other \in Codes \ {fbCode} : feedbackToString(other) # fbString
          /\ Cardinality({feedbackToString(c) : c \in Codes}) = Cardinality(DigitStrings)

\* C11 witness: a guess with a repeated letter encoded both ways to the same
\* string with a leading zero, and a code below 81 converted to a padded
\* string.
C11_Witness ==
    \/ /\ fbPc = "encoded"
       /\ guess = AsymGuess
       /\ solution = AsymSolution
       /\ fbString = <<"1", "0", "1", "2", "2">>
       /\ fbDirect = fbString
    \/ /\ fbPc = "converted"
       /\ fbCode = 5
       /\ fbString = <<"0", "0", "0", "1", "2">>

-----------------------------------------------------------------------------
(* The part_001 search on a corpus of six words: a call in a new context (an  *)
(* empty memo, a new progress tracker) on any candidate set of the corpus,    *)
(* and after it a call with no move left in the same context.                 *)

\* The candidate sets: the words of the corpus in sorted order, any of them
\* left out.
CorpusWordSets ==
    {SelectSeq(CorpusWords, LAMBDA w : w \in S) : S \in SUBSET Range(CorpusWords)}

SolveDepths == {0, 1, 2, MAX_ROUNDS - 1, MAX_ROUNDS}

SolveInit ==
    /\ words = <<>>
    /\ wordToIndex = <<>>
    /\ feedbackMatrix = <<>>
    /\ N = 0
    /\ memo = EmptyMemo
    /\ store = <<>>
    /\ pc = "solve"
    /\ round1Rows = <<>>
    /\ rowIdx = 0
    /\ feedbackGroups = <<>>
    /\ groupIdx = 0
    /\ lastCall = NoCall
    /\ prevCall = NoCall
    /\ Part1Idle
    /\ FbIdle
    /\ HashIdle
    /\ RunsIdle

\* computeOptimalGuessRecursive(group, depthLeft, feedbackCache, memo, progress):
\* the first call of a context starts from its new memo and progress tracker,
\* at any depth; a later call of the context runs with depthLeft = 0 on the
\* memo and the progress tracker the call before left.
SolveCall ==
    /\ pc = "solve"
    /\ callCount < MaxCalls
    /\ \E candidates \in CorpusWordSets,
          depthLeft \in (IF callCount = 0 THEN SolveDepths ELSE {0}) :
          LET st == [memo |-> memo1, progress |-> progress, calls |-> 0]
          IN \E out \in {computeOptimalGuessRecursive1(candidates, depthLeft, st)} :
                /\ memo1' = out.st.memo
                /\ progress' = out.st.progress
                /\ lastSolve' = SolveRecord(candidates, depthLeft, out, st)
                /\ prevSolve' = lastSolve
    /\ callCount' = callCount + 1
    /\ UNCHANGED <<runVars, memo, store, lastCall, prevCall, fbVars, hashVars,
                   runsVars>>

SolveNext == SolveCall

SolveSpec == SolveInit /\ [][SolveNext]_vars

\* 2 + epsilon, epsilon = 0.00001
TwoPlusEpsilon == <<200001, 0, 0, 100000>>

\* 9/4 = 1 + (3/4) * (1 + (2/3) * 1)
NineQuarters == <<9, 0, 0, 4>>

\* C16 as stated: a call on four distinct words with depthLeft = 2, an empty
\* memo and bestSoFar = Infinity returns expectedMoves <= 2 + epsilon.
C16_FourWordsWithinTwo ==
    (/\ lastSolve.made
     /\ lastSolve.fresh
     /\ Len(lastSolve.candidates) = 4
     /\ lastSolve.depthLeft = 2)
    => /\ lastSolve.result.guess \in Range(lastSolve.candidates)
       /\ ~LLess(TwoPlusEpsilon, lastSolve.result.moves)

\* C16 amended: a call on four distinct words with depthLeft = 2, an empty
\* memo and bestSoFar = Infinity returns one of the four words with
\* expectedMoves <= 9/4 (2.25, the value of four words of which every guess
\* leaves the other three in one group); the value is above 2 + epsilon only
\* when it is 9/4.
C16_FourWordsWithinNineQuarters ==
    (/\ lastSolve.made
     /\ lastSolve.fresh
     /\ Len(lastSolve.candidates) = 4
     /\ lastSolve.depthLeft = 2)
    => /\ lastSolve.result.guess \in Range(lastSolve.candidates)
       /\ ~LLess(NineQuarters, lastSolve.result.moves)
       /\ LLess(TwoPlusEpsilon, lastSolve.result.moves)
             => lastSolve.result.moves = NineQuarters

\* C16 witness: LATCH, MATCH, PATCH, WATCH searched with depthLeft = 2 in a new
\* context: the call returns LATCH with 9/4 expected moves.
C16_Witness ==
    /\ lastSolve.made
    /\ lastSolve.fresh
    /\ lastSolve.candidates = <<LATCH, MATCH, PATCH, WATCH>>
    /\ lastSolve.depthLeft = 2
    /\ lastSolve.result = [guess |-> LATCH, moves |-> NineQuarters]

RECURSIVE SumOver(_, _)
\* The sum of the values f[x] over the members x of a finite set T.
SumOver(f, T) ==
    IF T = {} THEN LZero
    ELSE LET x == CHOOSE y \in T : TRUE
         IN LAdd(f[x], SumOver(f, T \ {x}))

\* m * log2(m) for m in 1..6
MLog2M(m) == <<m * Multiplicity(2, m), m * Multiplicity(3, m), m * Multiplicity(5, m), 1>>

\* log2(n) - entropy(g): the sum over the feedbacks fb of the guess of
\* (m / n) * log2(m), m the number of candidates that give fb; the feedbacks
\* are taken from getFeedback itself.
EntropyDeficit(g, candidates) ==
    LET fbOf == [k \in 1..Len(candidates) |-> getFeedback(g, candidates[k])]
        fbs == Range(fbOf)
        count == [fb \in fbs |-> Cardinality({k \in 1..Len(candidates) : fbOf[k] = fb})]
        total == SumOver([fb \in fbs |-> MLog2M(count[fb])], fbs)
    IN LScale(1, Len(candidates), total)

\* C17: a call with depthLeft = 0 on two or more candidates makes no recursive
\* call and no expansion, leaves memo and progress as they were, and returns
\* the first candidate, in candidate order, of greatest one-step entropy, with
\* moves = 1 + log2(|candidates|) - that entropy.
C17_DepthExhaustedFallback ==
    (/\ lastSolve.made
     /\ lastSolve.depthLeft = 0
     /\ Len(lastSolve.candidates) > 1)
    => /\ lastSolve.calls = 0
       /\ lastSolve.expansions = 0
       /\ ~lastSolve.memoChanged
       /\ ~lastSolve.progressChanged
       /\ LET deficit == [k \in 1..Len(lastSolve.candidates) |->
                             EntropyDeficit(lastSolve.candidates[k],
                                            lastSolve.candidates)]
          IN \E k \in 1..Len(lastSolve.candidates) :
                /\ lastSolve.result.guess = lastSolve.candidates[k]
                /\ lastSolve.result.moves = LAdd(LOne, deficit[k])
                /\ \A j \in 1..Len(lastSolve.candidates) :
                      /\ ~LLess(deficit[j], deficit[k])
                      /\ j < k => LLess(deficit[k], deficit[j])

\* C17 witness: the fallback on five or more candidates of which two attain
\* the greatest entropy, reached in a context whose memo is filled and whose
\* bestSoFar is finite; the first of the two, not the first candidate, is
\* returned.
C17_Witness ==
    /\ lastSolve.made
    /\ lastSolve.depthLeft = 0
    /\ Len(lastSolve.candidates) >= 5
    /\ memo1 # EmptyMemo
    /\ ~LIsInfinite(progress.bestSoFar)
    /\ lastSolve.result.guess # lastSolve.candidates[1]
    /\ \E j \in 1..Len(lastSolve.candidates) :
          /\ lastSolve.candidates[j] # lastSolve.result.guess
          /\ EntropyDeficit(lastSolve.candidates[j], lastSolve.candidates)
                = EntropyDeficit(lastSolve.result.guess, lastSolve.candidates)

-----------------------------------------------------------------------------
(* Sequential runs of runPrecomputation on one database file: a run ends by  *)
(* completing or by being interrupted (the process killed) while a call of   *)
(* the search awaits; the next run starts with an empty memo on the table    *)
(* the runs before left.                                                     *)

\* The most runs begun after the first.
MaxRuns == 2

\* The seedings of the runs: a vocabulary and the list of its starting words.
RunSeedings ==
    {[wordArray |-> SeedLatch.wordArray, starting |-> <<LUXES>>],
     [wordArray |-> SeedLatch.wordArray, starting |-> <<LUXES, FUZZY>>],
     [wordArray |-> SeedLatch.wordArray, starting |-> <<BINGO, MUSKY>>],
     [wordArray |-> SeedAback.wordArray, starting |-> <<TRACE, ABACK>>]}

RunsInit ==
    /\ \E seeding \in RunSeedings :
          /\ store = SeedRows(seeding.wordArray, seeding.starting)
          /\ runStart = Len(seeding.starting)
    /\ runCount = 0
    /\ prevCompleted = FALSE
    /\ words = <<>>
    /\ wordToIndex = <<>>
    /\ feedbackMatrix = <<>>
    /\ N = 0
    /\ memo = EmptyMemo
    /\ pc = "start"
    /\ round1Rows = <<>>
    /\ rowIdx = 0
    /\ feedbackGroups = <<>>
    /\ groupIdx = 0
    /\ lastCall = NoCall
    /\ prevCall = NoCall
    /\ Part1Idle
    /\ FbIdle
    /\ HashIdle

\* The process is killed while the call on the current group is under way:
\* the rows the call had inserted by then (any number of the rows it inserts,
\* in its order of insertion) stay in best_guesses, the memo is lost.
Interrupt ==
    /\ pc = "groups"
    /\ groupIdx <= Len(feedbackGroups)
    /\ LET group == feedbackGroups[groupIdx]
           st == [memo |-> memo, store |-> store, calls |-> 0, io |-> NoFaults]
       IN \E out \in {computeOptimalGuessRecursive(
                          group.members, MAX_ROUNDS - 1, Infinity,
                          round1Rows[rowIdx].bestGuess,
                          feedbackToString(group.code), st)} :
             \E kept \in Len(store)..Len(out.st.store) :
                store' = SubSeq(out.st.store, 1, kept)
    /\ pc' = "interrupted"
    /\ UNCHANGED <<words, wordToIndex, feedbackMatrix, N, memo, round1Rows, rowIdx,
                   feedbackGroups, groupIdx, lastCall, prevCall, part1Vars, fbVars,
                   hashVars, runsVars>>

\* The script is started again: the module-level state is new, best_guesses is
\* as the run before left it.
NextRun ==
    /\ pc \in {"done", "interrupted"}
    /\ runCount < MaxRuns
    /\ runCount' = runCount + 1
    /\ runStart' = Len(store)
    /\ prevCompleted' = (pc = "done")
    /\ words' = <<>>
    /\ wordToIndex' = <<>>
    /\ feedbackMatrix' = <<>>
    /\ N' = 0
    /\ memo' = EmptyMemo
    /\ pc' = "start"
    /\ round1Rows' = <<>>
    /\ rowIdx' = 0
    /\ feedbackGroups' = <<>>
    /\ groupIdx' = 0
    /\ lastCall' = NoCall
    /\ prevCall' = NoCall
    /\ UNCHANGED <<store, part1Vars, fbVars, hashVars>>

RunsNext ==
    \/ SetUp
    \/ BeginRow
    \/ SearchGroup
    \/ EndRow
    \/ Finish
    \/ Interrupt
    \/ NextRun

RunsSpec == RunsInit /\ [][RunsNext]_vars

\* C20: at every moment of every sequence of runs, no two rows of best_guesses
\* with round >= 2 have the same round and candidateHash, and while a run that
\* follows a completed run is under way or over, best_guesses has the rows it
\* had when that run began.
C20_IdempotentPersistence ==
    /\ \A j, k \in 1..Len(store) :
          (j # k /\ store[j].round >= 2 /\ store[j].round = store[k].round)
          => store[j].candidateHash # store[k].candidateHash
    /\ prevCompleted => Len(store) = runStart

\* C20 witness: the third run, begun after a completed run, has gone through
\* all the starting words again over a table that holds rows of rounds 2 and
\* 3, its last call stored nothing, and best_guesses has the rows it had when
\* the run began.
C20_Witness ==
    /\ pc = "done"
    /\ runCount = 2
    /\ prevCompleted
    /\ Len(store) = runStart
    /\ \E j, k \in 1..Len(store) : store[j].round = 2 /\ store[k].round = 3
    /\ lastCall.made
    /\ ~lastCall.storeChanged

-----------------------------------------------------------------------------
(* Direct calls of the search on a failing database connection *)

\* The statements of one call, counted from its first, of which one may fail.
MaxFaultAt == 3

\* The set-up state of HarnessSeed; the calls below are made on a connection
\* whose selects or inserts may raise.
FaultInit ==
    /\ words = WordsArray(HarnessWords)
    /\ N = Len(HarnessWords)
    /\ wordToIndex = IndexMap(WordsArray(HarnessWords), Len(HarnessWords))
    /\ feedbackMatrix = buildFeedbackMatrix(WordsArray(HarnessWords), Len(HarnessWords))
    /\ memo = EmptyMemo
    /\ pc = "faults"
    /\ store = SeedRows(HarnessSeed.wordArray, <<LUXES>>)
    /\ round1Rows = SeedRows(HarnessSeed.wordArray, <<LUXES>>)
    /\ rowIdx = 0
    /\ feedbackGroups = <<>>
    /\ groupIdx = 0
    /\ lastCall = NoCall
    /\ prevCall = NoCall
    /\ Part1Idle
    /\ FbIdle
    /\ HashIdle
    /\ RunsIdle

\* await computeOptimalGuessRecursive(candidateIndices, MAX_ROUNDS - 1, Infinity,
\* "", "") while the failRead-th select and the failWrite-th insert of the call
\* reject (0: none does).
CallOnFailingDB ==
    /\ pc = "faults"
    /\ callCount = 0
    /\ \E candidateIndices \in HarnessIndexSets \ {<<>>},
          failRead \in 0..MaxFaultAt, failWrite \in 0..MaxFaultAt :
          LET st == [memo |-> memo, store |-> store, calls |-> 0,
                     io |-> Faults(failRead, failWrite)]
          IN \E out \in {computeOptimalGuessRecursive(candidateIndices,
                             MAX_ROUNDS - 1, Infinity, "", "", st)} :
                /\ memo' = out.st.memo
                /\ store' = out.st.store
                /\ lastCall' = CallRecord(candidateIndices, MAX_ROUNDS - 1,
                                          Infinity, out, st)
                /\ prevCall' = lastCall
    /\ callCount' = callCount + 1
    /\ UNCHANGED <<runVars, memo1, progress, lastSolve, prevSolve, fbVars, hashVars, runsVars>>

FaultNext == CallOnFailingDB

FaultSpec == FaultInit /\ [][FaultNext]_vars

\* C21: a call during which a read of the persistent cache raised an error
\* treats the failure as a cache miss: no error reaches its caller, and it
\* returns a result for its candidate set.
C21_ReadFailureIsMiss ==
    (lastCall.made /\ lastCall.io.readFailed) =>
        /\ ~lastCall.threw
        /\ lastCall.result.bestGuess \in Range(lastCall.candidateIndices)

\* The table's search rows for a memo key <<depthLeft, fingerprint>>.
RowsOfKey(rows, key) ==
    {k \in 1..Len(rows) :
        /\ rows[k].round = MAX_ROUNDS - key[1] + 1
        /\ rows[k].candidateHash = key[2]}

\* C22: when the insert of a result fails, the error reaches the caller of
\* the search, the table has no row of that result, and the memo already maps
\* the (depthLeft, fingerprint) of the failed insert to the computed result.
C22_WriteFailureRethrown ==
    (lastCall.made /\ lastCall.io.writeFailed) =>
        /\ lastCall.threw
        /\ RowsOfKey(store, lastCall.io.failedKey) = {}
        /\ lastCall.io.failedKey \in DOMAIN memo
        /\ memo[lastCall.io.failedKey] = lastCall.io.failedResult

\* C22 witness: the second insert of a call failed, in a recursive call, after
\* the first one had stored its row.
C22_Witness ==
    /\ lastCall.made
    /\ lastCall.io.writeFailed
    /\ lastCall.threw
    /\ lastCall.calls > 0
    /\ lastCall.storeChanged
    /\ lastCall.io.failedKey \in DOMAIN memo

-----------------------------------------------------------------------------
(* Direct calls of the search that differ in prevGuess and feedback only *)

\* The prevGuess and feedback a caller passes: none, or a starting word with
\* the feedback it got.
MetaTexts ==
    {[prevGuess |-> "", feedback |-> ""],
     [prevGuess |-> "LUXES", feedback |-> "00000"],
     [prevGuess |-> "FUZZY", feedback |-> "01020"]}

MetaDepths == {MAX_ROUNDS - 1, MAX_ROUNDS - 2}

\* The record of one call with its metadata, and the memo and table it left.
MetaRecord(candidateIndices, depthLeft, prevGuess, feedback, out) ==
    [candidateIndices |-> candidateIndices, depthLeft |-> depthLeft,
     prevGuess |-> prevGuess, feedback |-> feedback, made |-> TRUE,
     threw |-> out.threw, result |-> out.result,
     memo |-> out.st.memo, store |-> out.st.store]

NoMetaCall ==
    [candidateIndices |-> <<>>, depthLeft |-> 0, prevGuess |-> "", feedback |-> "",
     made |-> FALSE, threw |-> FALSE, result |-> NoResult,
     memo |-> EmptyMemo, store |-> <<>>]

\* The set-up state of HarnessSeed.  In this specification lastCall is the
\* record of the call made, prevCall that of the same call made from the same
\* memo and table with another prevGuess and feedback.
MetaInit ==
    /\ words = WordsArray(HarnessWords)
    /\ N = Len(HarnessWords)
    /\ wordToIndex = IndexMap(WordsArray(HarnessWords), Len(HarnessWords))
    /\ feedbackMatrix = buildFeedbackMatrix(WordsArray(HarnessWords), Len(HarnessWords))
    /\ memo = EmptyMemo
    /\ pc = "meta"
    /\ store = SeedRows(HarnessSeed.wordArray, <<LUXES>>)
    /\ round1Rows = SeedRows(HarnessSeed.wordArray, <<LUXES>>)
    /\ rowIdx = 0
    /\ feedbackGroups = <<>>
    /\ groupIdx = 0
    /\ lastCall = NoMetaCall
    /\ prevCall = NoMetaCall
    /\ Part1Idle
    /\ FbIdle
    /\ HashIdle
    /\ RunsIdle

\* await computeOptimalGuessRecursive(candidateIndices, depthLeft, Infinity,
\* given.prevGuess, given.feedback), and what the same call would have done
\* with the other prevGuess and feedback.
CallWithMetadata ==
    /\ pc = "meta"
    /\ callCount < MaxCalls
    /\ \E candidateIndices \in HarnessIndexSets \ {<<>>}, depthLeft \in MetaDepths,
          given \in MetaTexts, other \in MetaTexts :
          LET st == [memo |-> memo, store |-> store, calls |-> 0, io |-> NoFaults]
          IN \E out \in {computeOptimalGuessRecursive(candidateIndices, depthLeft,
                             Infinity, given.prevGuess, given.feedback, st)},
                twin \in {computeOptimalGuessRecursive(candidateIndices, depthLeft,
                             Infinity, other.prevGuess, other.feedback, st)} :
                /\ memo' = out.st.memo
                /\ store' = out.st.store
                /\ lastCall' = MetaRecord(candidateIndices, depthLeft,
                                          given.prevGuess, given.feedback, out)
                /\ prevCall' = MetaRecord(candidateIndices, depthLeft,
                                          other.prevGuess, other.feedback, twin)
    /\ callCount' = callCount + 1
    /\ UNCHANGED <<runVars, memo1, progress, lastSolve, prevSolve, fbVars, hashVars, runsVars>>

MetaNext == CallWithMetadata

MetaSpec == MetaInit /\ [][MetaNext]_vars

\* A row without its previous_guess and feedback columns.
WithoutMetadata(row) == [row EXCEPT !.previousGuess = "", !.feedback = ""]

\* C23: prevGuess and feedback are metadata only.  Two calls made from the
\* same memo and table that differ only in prevGuess and feedback return the
\* same result and leave the same memo; their tables differ at most in the
\* previous_guess and feedback columns of round=2 rows; and every row of
\* round 3 or more has both columns empty.
C23_MetadataOnly ==
    lastCall.made =>
        /\ lastCall.threw = prevCall.threw
        /\ lastCall.result = prevCall.result
        /\ lastCall.memo = prevCall.memo
        /\ Len(lastCall.store) = Len(prevCall.store)
        /\ \A k \in 1..Len(lastCall.store) :
              /\ WithoutMetadata(lastCall.store[k]) = WithoutMetadata(prevCall.store[k])
              /\ lastCall.store[k].round # 2 => lastCall.store[k] = prevCall.store[k]
              /\ lastCall.store[k].round >= 3 =>
                    /\ lastCall.store[k].previousGuess = ""
                    /\ lastCall.store[k].feedback = ""

\* C23 witness: two calls of round 2 with different prevGuess and feedback
\* stored rows, of rounds 2 and 3, and their tables differ.
C23_Witness ==
    /\ lastCall.made
    /\ lastCall.depthLeft = MAX_ROUNDS - 1
    /\ lastCall.prevGuess # prevCall.prevGuess
    /\ lastCall.feedback # prevCall.feedback
    /\ lastCall.store # prevCall.store
    /\ \E k \in 1..Len(lastCall.store) : lastCall.store[k].round >= 3

-----------------------------------------------------------------------------
(* What the results say about the size of their candidate set *)

\* A result has zero expected moves exactly when its candidate set has one
\* member, which is then the guess, and at least one move otherwise.
SizeAndMoves(size, isFirst, expectedMoves) ==
    /\ (RLeq(expectedMoves, Zero) /\ RGeq(expectedMoves, Zero)) <=> size = 1
    /\ size = 1 => isFirst
    /\ size >= 2 => RGeq(expectedMoves, One)

\* C24: every result returned, memoized or stored for a candidate set S has
\* expectedMoves = 0 exactly when S has one member (the guess being that
\* member), and expectedMoves >= 1 when S has two or more.
C24_ZeroIffSingle ==
    /\ (lastCall.made /\ ~lastCall.threw) =>
          SizeAndMoves(Len(lastCall.candidateIndices),
                       lastCall.result.bestGuess = FirstOf(lastCall.candidateIndices),
                       lastCall.result.expectedMoves)
    /\ \A key \in DOMAIN memo :
          SizeAndMoves(Len(key[2]), memo[key].bestGuess = FirstOf(key[2]),
                       memo[key].expectedMoves)
    /\ \A k \in 1..Len(store) :
          store[k].round # 1 =>
              SizeAndMoves(Len(store[k].candidateWords),
                           store[k].bestGuess = store[k].candidateWords[1],
                           store[k].expectedMoves)

\* C24 witness: a call on two or more candidates returned, and the memo and
\* the table hold results of single candidates and of larger sets.
C24_Witness ==
    /\ lastCall.made
    /\ ~lastCall.threw
    /\ Len(lastCall.candidateIndices) >= 2
    /\ \E key \in DOMAIN memo : Len(key[2]) = 1 /\ memo[key].expectedMoves = Zero
    /\ \E key \in DOMAIN memo : Len(key[2]) >= 2
    /\ \E k \in 1..Len(store) :
          store[k].round # 1 /\ Len(store[k].candidateWords) = 1
    /\ \E k \in 1..Len(store) :
          store[k].round # 1 /\ Len(store[k].candidateWords) >= 2

-----------------------------------------------------------------------------
(* The best guess is a candidate *)

\* C29: over a vocabulary of distinct words, every result the search returns
\* or memoizes for a candidate set S has its bestGuess in S, and every row the
\* search stores has its best_guess among its candidate_words.
C29_GuessIsCandidate ==
    /\ (lastCall.made /\ ~lastCall.threw) =>
          lastCall.result.bestGuess \in Range(lastCall.candidateIndices)
    /\ \A key \in DOMAIN memo : memo[key].bestGuess \in Range(key[2])
    /\ \A k \in 1..Len(store) :
          store[k].round # 1 => store[k].bestGuess \in Range(store[k].candidateWords)

\* C29 witness: a later run over distinct words has made a call that was
\* answered from the table and memoized, and the table holds a result of a
\* search in which every guess was pruned, whose guess is the baseline
\* candidateIndices[0].
C29_Witness ==
    /\ lastCall.made
    /\ ~lastCall.threw
    /\ runCount >= 1
    /\ ~lastCall.storeChanged
    /\ Cardinality(Range(words)) = N
    /\ \E key \in DOMAIN memo :
          /\ Len(key[2]) >= 2
          /\ memo[key] = lastCall.result
    /\ \E k \in 1..Len(store) :
          /\ store[k].round # 1
          /\ IsInfinite(store[k].expectedMoves)
          /\ store[k].bestGuess = store[k].candidateWords[1]

-----------------------------------------------------------------------------
(* Termination of the search and of the run *)

\* The candidate sets the partition property is checked on, besides the whole
\* vocabulary and the set of the last top-level call: those of this size or less.
MaxSetSize == 3

\* The most round=1 rows of the seedings whose runs are followed to their end.
MaxLiveStartWords == 2

\* The seeded tables of at most MaxLiveStartWords starting words.
LiveInit == Init /\ Len(store) <= MaxLiveStartWords

\* The control of runPrecomputation: where it is in its two loops.
control == <<pc, rowIdx, groupIdx>>

\* The control skeleton of Next: the changes of pc, rowIdx and groupIdx that
\* the steps of the run make, under the guards of those steps.
Advance ==
    \/ pc = "start" /\ pc' \in {"rows", "done"} /\ rowIdx' \in {rowIdx, 1}
                    /\ groupIdx' = groupIdx
    \/ /\ pc = "rows"
       /\ rowIdx <= Len(round1Rows)
       /\ round1Rows[rowIdx].bestGuess # <<>>
       /\ pc' = "groups" /\ rowIdx' = rowIdx /\ groupIdx' = 1
    \/ /\ pc = "rows"
       /\ rowIdx > Len(round1Rows)
       /\ pc' = "done" /\ rowIdx' = rowIdx /\ groupIdx' = groupIdx
    \/ /\ pc = "groups"
       /\ groupIdx <= Len(feedbackGroups)
       /\ pc' = pc /\ rowIdx' = rowIdx /\ groupIdx' = groupIdx + 1
    \/ /\ pc = "groups"
       /\ groupIdx > Len(feedbackGroups)
       /\ pc' = "rows" /\ rowIdx' = rowIdx + 1 /\ groupIdx' = groupIdx

\* runPrecomputation is one sequential async function on an otherwise idle
\* event loop: its control advances whenever it can.  Every step of Next is a
\* step of Advance (the first conjunct of C28_Terminates checks it).
LiveSpec == LiveInit /\ [][Next]_vars /\ WF_control(Advance)

\* The candidate sets of at most MaxSetSize members, and the whole vocabulary.
TerminationSets ==
    {SortedSeq(T) : T \in {U \in SUBSET (0..(N - 1)) :
                              Cardinality(U) \in 1..MaxSetSize}}
        \cup {SortedSeq(0..(N - 1))}

\* Each guess of the candidate set S is alone in its feedback group, under
\* the code of five greens, and every group the search recurses on (two or
\* more members) is smaller than S.
GuessesAlone(S) ==
    \A g \in Range(S) :
        LET parts == Partitions(g, S)
        IN /\ \E p \in 1..Len(parts) :
                 parts[p].code = CORRECT_CODE /\ parts[p].members = <<g>>
           /\ \A p \in 1..Len(parts) :
                 Len(parts[p].members) > 1 => Len(parts[p].members) < Len(S)

\* The partition property in the state the set-up phase leaves, and for the
\* candidate set of every top-level call made.
Shrinking ==
    /\ (pc = "rows" /\ rowIdx = 1 /\ lastCall = NoCall) =>
          \A S \in TerminationSets : GuessesAlone(S)
    /\ lastCall.made => GuessesAlone(lastCall.candidateIndices)

\* C28: over a vocabulary of distinct words every guess of a candidate set
\* ends alone in its own feedback group (code 242), so every recursive call is
\* on a group of at least two and fewer members than its caller's set; and
\* every run of runPrecomputation, with every call it makes, terminates.
C28_Terminates ==
    /\ [][Advance]_vars
    /\ []Shrinking
    /\ <>(pc = "done")

\* C28 witness: a run over a vocabulary of distinct words has ended after
\* top-level calls that recursed.
C28_Witness ==
    /\ pc = "done"
    /\ N >= 2
    /\ Cardinality(Range(words)) = N
    /\ lastCall.made
    /\ \E key \in DOMAIN memo : key[1] < MAX_ROUNDS - 1

-----------------------------------------------------------------------------
(* An interrupted and restarted run against an uninterrupted one *)

RECURSIVE RunGroups(_, _, _, _)
RECURSIVE RunRows(_, _, _)

\* for (const [fbCode, group] of feedbackGroups.entries()) { await
\* computeOptimalGuessRecursive(...) } from group g on, without interruption.
RunGroups(firstGuess, groups, g, st) ==
    IF g > Len(groups) THEN st
    ELSE RunGroups(firstGuess, groups, g + 1,
                   computeOptimalGuessRecursive(
                       groups[g].members, MAX_ROUNDS - 1, Infinity, firstGuess,
                       feedbackToString(groups[g].code), st).st)

\* for (const round1Row of round1Rows) { ... } from row r on, without
\* interruption.
RunRows(rows1, r, st) ==
    IF r > Len(rows1) THEN st
    ELSE RunRows(rows1, r + 1,
                 RunGroups(rows1[r].bestGuess,
                           FeedbackGroupsOf(rows1[r].bestGuess), 1, st))

\* best_guesses after one uninterrupted run of runPrecomputation that starts,
\* with a new memo, on a table holding the round=1 rows rows1 only.
UninterruptedRun(rows1) ==
    RunRows(rows1, 1,
            [memo |-> EmptyMemo, store |-> rows1, calls |-> 0, io |-> NoFaults]).store

\* C26: when a run that was interrupted at any point (once or more) is
\* restarted in a new process on the table it left, with the same vocabulary
\* and round=1 rows, the restarted run ends with exactly the rows one
\* uninterrupted run from the seeded table ends with.
C26_RestartConverges ==
    (pc = "done" /\ runCount >= 1) =>
        LET uninterrupted == UninterruptedRun(round1Rows)
        IN /\ Range(store) = Range(uninterrupted)
           /\ Len(store) = Len(uninterrupted)

\* C26 witness: a run was interrupted after it had inserted rows, and the run
\* restarted on its table has inserted further rows and completed.
C26_Witness ==
    /\ pc = "done"
    /\ runCount >= 1
    /\ ~prevCompleted
    /\ runStart > Len(round1Rows)
    /\ Len(store) > runStart

-----------------------------------------------------------------------------
(* computeConditionalGuesses (part_001 264-345) *)

\* The words remainingCandidates is drawn from, in sorted order.
ConditionalWords == <<BINGO, FUZZY, LATCH, MATCH, PATCH, TRACE>>

\* The sorted arrays of remaining candidates.
ConditionalWordSets ==
    {SelectSeq(ConditionalWords, LAMBDA w : w \in S) :
        S \in SUBSET Range(ConditionalWords)}

\* The rounds computeConditionalGuesses is called for.
ConditionalRounds == 1..MAX_ROUNDS

NoConditionalCall ==
    [previousGuess |-> NoWord, round |-> 0, candidates |-> <<>>, made |-> FALSE]

ConditionalInit ==
    /\ words = <<>>
    /\ wordToIndex = <<>>
    /\ feedbackMatrix = <<>>
    /\ N = 0
    /\ memo = EmptyMemo
    /\ store = <<>>
    /\ pc = "conditional"
    /\ round1Rows = <<>>
    /\ rowIdx = 0
    /\ feedbackGroups = <<>>
    /\ groupIdx = 0
    /\ lastCall = NoConditionalCall
    /\ prevCall = NoConditionalCall
    /\ Part1Idle
    /\ FbIdle
    /\ HashIdle
    /\ RunsIdle

\* computeConditionalGuesses(previousGuess, round, remainingCandidates) up to
\* its loop: the candidates sorted, the feedback groups of previousGuess in
\* the order of Object.entries, a new memo and a new progress tracker.  In
\* this specification store is the conditional_guesses table, lastCall the
\* arguments of the call.
BeginConditional ==
    /\ pc = "conditional"
    /\ \E previousGuess \in CacheWords, round \in ConditionalRounds,
          candidates \in ConditionalWordSets :
          /\ feedbackGroups' = GroupEntries(previousGuess, candidates)
          /\ lastCall' = [previousGuess |-> previousGuess, round |-> round,
                          candidates |-> candidates, made |-> TRUE]
    /\ groupIdx' = 1
    /\ memo1' = EmptyMemo
    /\ progress' = NewProgress
    /\ pc' = "conditional-groups"
    /\ UNCHANGED <<words, wordToIndex, feedbackMatrix, N, memo, store, round1Rows,
                   rowIdx, prevCall, lastSolve, prevSolve, callCount, fbVars,
                   hashVars, runsVars>>

\* What computeConditionalGuesses inserts for a group.
ConditionalRow(round, previousGuess, fb, group, bestGuess, expectedMoves) ==
    [currentRound |-> round, previousGuess |-> previousGuess, feedback |-> fb,
     bestGuess |-> bestGuess, expectedMoves |-> expectedMoves,
     candidateWords |-> group]

\* One iteration of for (const [fb, group] of Object.entries(feedbackGroups)):
\* a group of one candidate gets that candidate and 0 moves; a larger one is
\* searched with depthLeft = MAX_ROUNDS - (round - 1) on the memo and the
\* progress tracker shared by the groups, and its result is inserted.
\* prevSolve records the same group searched alone, on a new memo and a new
\* progress tracker.
ConditionalGroup ==
    /\ pc = "conditional-groups"
    /\ groupIdx <= Len(feedbackGroups)
    /\ LET fb == feedbackGroups[groupIdx].fb
           group == feedbackGroups[groupIdx].group
           depthLeft == MAX_ROUNDS - (lastCall.round - 1)
           shared == [memo |-> memo1, progress |-> progress, calls |-> 0]
           new == [memo |-> EmptyMemo, progress |-> NewProgress, calls |-> 0]
       IN \E both \in {[st \in {shared, new} |->
                          computeOptimalGuessRecursive1(group, depthLeft, st)]} :
             /\ prevSolve' = SolveRecord(group, depthLeft, both[new], new)
             /\ IF Len(group) <= 1
                THEN /\ store' = Append(store,
                            ConditionalRow(lastCall.round, lastCall.previousGuess,
                                           fb, group, group[1], LZero))
                     /\ UNCHANGED <<memo1, progress, lastSolve>>
                ELSE /\ store' = Append(store,
                            ConditionalRow(lastCall.round, lastCall.previousGuess,
                                           fb, group, both[shared].result.guess,
                                           both[shared].result.moves))
                     /\ memo1' = both[shared].st.memo
                     /\ progress' = both[shared].st.progress
                     /\ lastSolve' = SolveRecord(group, depthLeft, both[shared],
                                                 shared)
    /\ groupIdx' = groupIdx + 1
    /\ UNCHANGED <<words, wordToIndex, feedbackMatrix, N, memo, pc, round1Rows,
                   rowIdx, feedbackGroups, lastCall, prevCall, callCount, fbVars,
                   hashVars, runsVars>>

\* the loop over the groups is over: computeConditionalGuesses returns
EndConditional ==
    /\ pc = "conditional-groups"
    /\ groupIdx > Len(feedbackGroups)
    /\ pc' = "conditional-done"
    /\ UNCHANGED <<words, wordToIndex, feedbackMatrix, N, memo, store, round1Rows,
                   rowIdx, feedbackGroups, groupIdx, lastCall, prevCall, part1Vars,
                   fbVars, hashVars, runsVars>>

ConditionalNext ==
    \/ BeginConditional
    \/ ConditionalGroup
    \/ EndConditional

ConditionalSpec == ConditionalInit /\ [][ConditionalNext]_vars

\* The row just inserted holds the result of its group searched alone.
LastRowIsolated ==
    /\ store[Len(store)].bestGuess = prevSolve.result.guess
    /\ store[Len(store)].expectedMoves = prevSolve.result.moves

\* C27: for every round in 1..6, the result computeConditionalGuesses stores
\* for a feedback group is the result of searching that group alone with a
\* new memo and a new progress tracker (bestSoFar = +Infinity), whichever
\* groups were searched before it on the shared memo and progress tracker.
C27_GroupsIsolated ==
    (pc = "conditional-groups" /\ groupIdx > 1) => LastRowIsolated

\* The same for the rounds after the first.
LaterRoundsIsolated ==
    (pc = "conditional-groups" /\ groupIdx > 1 /\ lastCall.round >= 2) =>
        LastRowIsolated

-----------------------------------------------------------------------------
(* Two top-level calls of the search in one process *)

\* The statements of the first call, counted from its first, during whose
\* await the second call may run.
MaxYieldAt == 19

\* The longest word list on which every pair of candidate sets is called.
MaxConcurrentWords == 4

\* Nine words that differ in their first, fourth and fifth letters only.
SeedNine ==
    [wordArray |->
        <<W("A","F","M","P","U"), W("A","F","M","P","V"), W("A","F","M","R","V"),
          W("B","F","M","P","U"), W("B","F","M","P","V"), W("C","F","M","P","U"),
          W("C","F","M","R","U"), W("D","F","M","P","U"), W("D","F","M","R","U")>>,
     startingWords |-> {LUXES}]

ConcurrentSeeds == {HarnessSeed, SeedNine}

\* The candidate sets <<a, b>> of the two calls on a list of n words: every
\* two overlapping non-empty sets of a list of at most MaxConcurrentWords
\* words; of a longer list, the list without its fifth word and the whole
\* list.
ConcurrentPairs(n) ==
    IF n <= MaxConcurrentWords
    THEN LET sets == {SortedSeq(S) : S \in (SUBSET (0..(n - 1))) \ {{}}}
         IN {p \in sets \X sets : Range(p[1]) \cap Range(p[2]) # {}}
    ELSE {<<SortedSeq((0..(n - 1)) \ {4}), SortedSeq(0..(n - 1))>>}

\* The outcome of two calls: what each returned, the memo and the table.
Outcome(resultA, resultB, st) ==
    [resultA |-> resultA, resultB |-> resultB, memo |-> st.memo, rows |-> st.store]

\* await computeOptimalGuessRecursive(first, ...); then
\* await computeOptimalGuessRecursive(second, ...): one call after the other,
\* both with depthLeft = MAX_ROUNDS - 1 and alpha = Infinity; the outcome names
\* the result on a as resultA whichever call came first.
Serial(first, second, aFirst, st) ==
    LET one == computeOptimalGuessRecursive(first, MAX_ROUNDS - 1, Infinity, "", "", st)
        two == computeOptimalGuessRecursive(second, MAX_ROUNDS - 1, Infinity, "", "",
                                            one.st)
    IN IF aFirst THEN Outcome(one.result, two.result, two.st)
       ELSE Outcome(two.result, one.result, two.st)

NoConcurrentCalls ==
    [made |-> FALSE, a |-> <<>>, b |-> <<>>, yieldAt |-> 0,
     outcome |-> Outcome(NoResult, NoResult, [memo |-> EmptyMemo, store |-> <<>>])]

NoSerialCalls ==
    [ab |-> Outcome(NoResult, NoResult, [memo |-> EmptyMemo, store |-> <<>>]),
     ba |-> Outcome(NoResult, NoResult, [memo |-> EmptyMemo, store |-> <<>>])]

\* The set-up state of a seeding.  In this specification lastCall is the
\* record of the two concurrent calls, prevCall that of the same two calls
\* made one after the other from the same memo and table, in both orders.
ConcurrentInit ==
    /\ \E seed \in ConcurrentSeeds :
          /\ words = WordsArray(SortWords(seed.wordArray))
          /\ N = Len(seed.wordArray)
          /\ wordToIndex = IndexMap(WordsArray(SortWords(seed.wordArray)),
                                    Len(seed.wordArray))
          /\ feedbackMatrix = buildFeedbackMatrix(WordsArray(SortWords(seed.wordArray)),
                                                  Len(seed.wordArray))
          /\ store = SeedRows(seed.wordArray, <<LUXES>>)
          /\ round1Rows = SeedRows(seed.wordArray, <<LUXES>>)
    /\ memo = EmptyMemo
    /\ pc = "concurrent"
    /\ rowIdx = 0
    /\ feedbackGroups = <<>>
    /\ groupIdx = 0
    /\ lastCall = NoConcurrentCalls
    /\ prevCall = NoSerialCalls
    /\ Part1Idle
    /\ FbIdle
    /\ HashIdle
    /\ RunsIdle

\* Two tasks of one process call the search on overlapping candidate sets a
\* and b, without awaiting each other: while the call on a awaits its
\* yieldAt-th database statement, the call on b runs from its start to its end.
CallConcurrently ==
    /\ pc = "concurrent"
    /\ callCount = 0
    /\ \E p \in ConcurrentPairs(N), yieldAt \in 1..MaxYieldAt :
          LET a == p[1]
              b == p[2]
              st == [memo |-> memo, store |-> store, calls |-> 0, io |-> NoFaults]
              tasks == [st EXCEPT !.io.yieldAt = yieldAt,
                                  !.io.other = <<b, MAX_ROUNDS - 1, Infinity>>]
          IN \E out \in {computeOptimalGuessRecursive(a, MAX_ROUNDS - 1, Infinity,
                                                      "", "", tasks)} :
                /\ out.st.io.otherRan
                /\ memo' = out.st.memo
                /\ store' = out.st.store
                /\ lastCall' = [made |-> TRUE, a |-> a, b |-> b,
                                yieldAt |-> yieldAt,
                                outcome |-> Outcome(out.result,
                                                    out.st.io.otherResult,
                                                    out.st)]
                /\ prevCall' = [ab |-> Serial(a, b, TRUE, st),
                                ba |-> Serial(b, a, FALSE, st)]
    /\ callCount' = callCount + 1
    /\ UNCHANGED <<runVars, memo1, progress, lastSolve, prevSolve, fbVars, hashVars, runsVars>>

ConcurrentNext == CallConcurrently

ConcurrentSpec == ConcurrentInit /\ [][ConcurrentNext]_vars

\* Every result, memo entry and row of the outcome occurs in one of the two
\* serial outcomes.
EachFromSome(outcome, ab, ba) ==
    /\ outcome.resultA \in {ab.resultA, ba.resultA}
    /\ outcome.resultB \in {ab.resultB, ba.resultB}
    /\ \A key \in DOMAIN outcome.memo :
          \/ key \in DOMAIN ab.memo /\ outcome.memo[key] = ab.memo[key]
          \/ key \in DOMAIN ba.memo /\ outcome.memo[key] = ba.memo[key]
    /\ Range(outcome.rows) \subseteq Range(ab.rows) \cup Range(ba.rows)

\* C25: two top-level calls on overlapping candidate sets that interleave at
\* an await point cause duplicate work only: every result returned, memoized
\* or stored is the one that a serial execution of the two calls, in one
\* order or the other, produces.
C25_DuplicateWorkOnly ==
    lastCall.made => EachFromSome(lastCall.outcome, prevCall.ab, prevCall.ba)

\* The same on the lists of at most MaxConcurrentWords words.
ShortListsSerial ==
    (lastCall.made /\ N <= MaxConcurrentWords) =>
        EachFromSome(lastCall.outcome, prevCall.ab, prevCall.ba)

====
